---- MODULE Spec2Model ----
(***************************************************************************)
(* A model of the query engine of VJSoccerResults (src/fast_agent.py) and  *)
(* of the standings of the browsing page (src/app.py).                     *)
(*                                                                         *)
(* Time.  An instant is a number of hours since Monday 2026-03-30 00:00    *)
(* UTC; a calendar date is a number of days since that Monday, so that     *)
(* Python's date.weekday() (Monday = 0 .. Sunday = 6) is  d % 7.           *)
(* Australia/Melbourne is UTC+11 until 2026-04-04 16:00 UTC (Sunday        *)
(* 2026-04-05 03:00 local, the end of daylight saving) and UTC+10 after.   *)
(*                                                                         *)
(* Data.  A JSON object is a record; a key that is absent or null is held  *)
(* as a sentinel of the field's type (NoKey, Null, NoName), because the    *)
(* code tells the cases apart (a.get(k, 0), a.get(k) or "", x is None).    *)
(***************************************************************************)
EXTENDS Integers, Sequences, FiniteSets, TLC

VARIABLES
    now,        \* the current instant (hours, UTC)
    match_day,  \* get_match_day_date: the instant of the last call and its result
    pc,         \* position of the standings handler: "idle", "loop", "done"
    fn,         \* the standings function running
    query,      \* tool_ladder: competition_to_use and age_group_lower
    r,          \* the loop variable: the record of results being accumulated
    scanned,    \* how many records of results the loop has read
    table,      \* the defaultdict of rows, in insertion order
    ladder,     \* the sorted table returned
    fixtures,   \* master_fixtures.json: the attributes of each fixture
    results,    \* master_results.json: the attributes of each result
    mpc,        \* position of the missing-score handler: "idle", "done", "again",
                \* "raised"
    args,       \* tool_missing_scores: the arguments of the last call
    called_at,  \* the instant of the last call
    today,      \* tool_missing_scores: today
    target_day, \* tool_missing_scores: match_day
    result_lookup,  \* tool_missing_scores: result_lookup
    all_matches,    \* tool_missing_scores: all_matches
    missing_scores, \* tool_missing_scores: missing_scores, sorted
    out,        \* what the last call returned
    rpc,        \* position of the resolver: "idle", "done"
    team_names, \* the sorted team names of the people of the snapshot
    text,       \* normalize_team: the text resolved last
    resolved,   \* normalize_team: what it returned
    fuzzy_used, \* normalize_team: whether fuzzy_find was asked
    fuzzy_score,     \* fuzzy_team: the score extractOne gave, Null when it was not asked
    fpc,        \* position of the people handlers: "idle", "done"
    people,     \* the list of people a handler works on
    fargs,      \* filter_players_by_criteria: query and include_non_players
    extracted,  \* filter_players_by_criteria: age_group, team_name, base_club
    filtered,   \* filter_players_by_criteria: the list returned
    dpc,        \* position of tool_dual_registration: "idle", "done"
    dquery,     \* tool_dual_registration: query
    dfilters,   \* tool_dual_registration: the three filters
    dout,       \* tool_dual_registration: what it returned
    players_summary,    \* players_summary: the players of the snapshot
    staff_summary,      \* staff_summary: the staff of the snapshot
    bcall,      \* the leader board called last and its arguments
    listed,     \* the leader board's list after the filter and the sort
    board,      \* what the leader board returned
    raw_person, \* a person as a data file holds it
    npc,        \* _normalize_person: "idle", or whom it normalised the person as
    person,     \* _normalize_person: what it returned
    spc,        \* position of the router: "idle", "done"
    asked,      \* FastQueryRouter.process: query
    routed,     \* FastQueryRouter.process: the handler called and its arguments
    USER_CONFIG,    \* fast_agent.USER_CONFIG: team, club and age_group
    hpc,        \* position of the handlers of records: "idle", "done"
    hcall,      \* the handler called last and its query
    ret,        \* what it returned, or the exception it raised
    competition_overview,   \* competition_overview.json, by competition
    league_names,       \* the sorted league names of the people of the snapshot
    competition_names,  \* their sorted competition names
    cpc,        \* position of the handlers of a competition: "idle", "done"
    ccall,      \* the handler called last and its query
    cret,       \* what it returned
    disk,       \* the version of each data file
    loaded,     \* the versions each module-level name of fast_agent is made from
    entries,    \* the number of entries each index holds
    reload_at,  \* the statement a running reload executes next, 0 when none runs
    reloads,    \* the number of reloads begun
    qpc,        \* position of a query of another session: "idle", "running",
                \* "done", "raised"
    qcall,      \* the rule of process the query takes, and the handler it calls
    seen,       \* what the query found at each of its reads, in their order
    walk,       \* the index the query is walking, and what the reload did to it
    wall,       \* datetime.now() of app.py, in seconds since the session began
    session_state,  \* st.session_state: the keys the session functions write
    last_op,    \* what the session did last: "init", "wait", "login", "check",
                \* "logout", "refresh"
    time_diff,  \* check_session_timeout: time_diff in seconds, Null when not taken
    sret,       \* check_session_timeout: what it returned, "none" before a call
    logout_log, \* the log_logout calls made, the session id of each
    file_exists,    \* whether users_config.json exists
    users_file, \* users_config.json: the users it holds
    ucall,      \* the user management function called last and its arguments
    uret        \* what it returned: success and message

timeVars   == <<now, match_day>>
ladderVars == <<pc, fn, query, r, scanned, table, ladder>>
missingVars ==
    <<fixtures, results, mpc, args, called_at, today, target_day,
      result_lookup, all_matches, missing_scores, out>>
resolveVars == <<rpc, team_names, text, resolved, fuzzy_used, fuzzy_score>>
peopleVars ==
    <<fpc, people, fargs, extracted, filtered, dpc, dquery, dfilters, dout,
      players_summary, staff_summary, bcall, listed, board,
      raw_person, npc, person>>
routerVars == <<spc, asked, routed>>
configVars == <<USER_CONFIG>>
handlerVars == <<hpc, hcall, ret>>
competitionVars ==
    <<competition_overview, league_names, competition_names, cpc, ccall, cret>>
refreshVars ==
    <<disk, loaded, entries, reload_at, reloads, qpc, qcall, seen, walk>>
sessionVars == <<wall, session_state, last_op, time_diff, sret, logout_log>>
storeVars == <<file_exists, users_file, ucall, uret>>
missingLocals ==
    <<mpc, args, called_at, today, target_day, result_lookup, all_matches,
      missing_scores, out>>
vars ==
    <<now, match_day, pc, fn, query, r, scanned, table, ladder,
      fixtures, results, mpc, args, called_at, today, target_day,
      result_lookup, all_matches, missing_scores, out,
      rpc, team_names, text, resolved, fuzzy_used, fuzzy_score,
      fpc, people, fargs, extracted, filtered, dpc, dquery, dfilters, dout,
      players_summary, staff_summary, bcall, listed, board,
      raw_person, npc, person,
      spc, asked, routed, USER_CONFIG, hpc, hcall, ret,
      competition_overview, league_names, competition_names, cpc, ccall, cret,
      disk, loaded, entries, reload_at, reloads, qpc, qcall, seen, walk,
      wall, session_state, last_op, time_diff, sret, logout_log,
      file_exists, users_file, ucall, uret>>

\* what the actions of one part of the program leave alone
notTime ==
    <<ladderVars, missingVars, resolveVars, peopleVars, routerVars, handlerVars,
     competitionVars, refreshVars, sessionVars, storeVars, configVars>>
notLadder ==
    <<timeVars, missingVars, resolveVars, peopleVars, routerVars, handlerVars,
     competitionVars, refreshVars, sessionVars, storeVars, configVars>>
notMissing ==
    <<match_day, ladderVars, resolveVars, peopleVars, routerVars, handlerVars,
     competitionVars, refreshVars, sessionVars, storeVars, configVars>>
notResolve ==
    <<timeVars, ladderVars, missingVars, peopleVars, routerVars, handlerVars,
     competitionVars, refreshVars, sessionVars, storeVars, configVars>>
notPeople ==
    <<timeVars, ladderVars, missingVars, resolveVars, routerVars, handlerVars,
     competitionVars, refreshVars, sessionVars, storeVars, configVars>>
notRouter ==
    <<timeVars, ladderVars, missingVars, resolveVars, peopleVars, handlerVars,
     competitionVars, refreshVars, sessionVars, storeVars>>
notHandlers ==
    <<match_day, ladderVars, missingLocals, resolveVars, peopleVars, routerVars,
      competitionVars, refreshVars, sessionVars, storeVars, configVars>>
notCompetition ==
    <<timeVars, ladderVars, missingVars, resolveVars, peopleVars, routerVars,
      handlerVars, refreshVars, sessionVars, storeVars, configVars>>
notRefresh ==
    <<timeVars, ladderVars, missingVars, resolveVars, peopleVars, routerVars,
      handlerVars, competitionVars, sessionVars, storeVars>>
notSession ==
    <<timeVars, ladderVars, missingVars, resolveVars, peopleVars, routerVars,
      handlerVars, competitionVars, refreshVars, storeVars>>
notStore ==
    <<timeVars, ladderVars, missingVars, resolveVars, peopleVars, routerVars,
      handlerVars, competitionVars, refreshVars, sessionVars, configVars>>

(***************************************************************************)
(* Bounds.                                                                 *)
(***************************************************************************)
\* the clock runs over this many hours (more than a week, across the end of DST)
MaxHours == 230
\* the number of records of results a standings call reads
MaxResults == 2
\* the number of players of the pool in players_summary
MaxBoardPlayers == 2
\* the number of players of a squad list, more than a card table shows
MaxCrowd == 31
\* the number of results of a season, more than tool_form shows
MaxFormResults == 6
\* the number of entries of a person's matches
MaxMatches == 3
\* the number of fixtures in the snapshot the missing-score handler reads
MaxFixtures == 2
\* the number of results in that snapshot
MaxResultRecords == 1
\* the most people in the list a handler of people works on
MaxPeople == 2
\* the number of results in the snapshot the handlers of records read
MaxDayResults == 2
\* the number of fixtures in that snapshot
MaxDayFixtures == 1
\* the number of snapshots the Dataset Normalizer writes after the first
MaxRefreshes == 1
\* the number of people an index of names holds
IndexSize == 2
\* the number of reloads of the module
MaxReloads == 1

(***************************************************************************)
(* Time authority.                                                         *)
(***************************************************************************)
\* pytz Australia/Melbourne: the instant daylight saving ends in 2026
DstEndHour == 136

\* the UTC offset pytz gives an instant
UtcOffset(h) == IF h < DstEndHour THEN 11 ELSE 10

\* datetime.now(melbourne_tz).date()
LocalDate(h) == (h + UtcOffset(h)) \div 24

\* date.weekday(): Monday = 0 .. Sunday = 6
weekday(d) == d % 7

\* the reporting day as get_last_sunday computes it: on a Sunday, a week back
get_match_day_date_week_back(h) ==
    LET today_aest == LocalDate(h)
        days_since_sunday == (weekday(today_aest) + 1) % 7
    IN  IF days_since_sunday = 0 THEN today_aest - 7
        ELSE today_aest - days_since_sunday

get_match_day_date(h) ==
    LET today_aest == LocalDate(h)
        days_since_sunday == (weekday(today_aest) + 1) % 7
    IN  IF weekday(today_aest) = 6 THEN today_aest
        ELSE today_aest - days_since_sunday

NoMatchDay == [at |-> -1, day |-> 0]

\* an hour passes
Tick ==
    /\ now < MaxHours
    /\ now' = now + 1
    /\ UNCHANGED match_day

\* a handler asks for the reporting day
CallGetMatchDayDate ==
    /\ match_day' = [at |-> now, day |-> get_match_day_date(now)]
    /\ UNCHANGED now

(***************************************************************************)
(* Strings.  TLC has no characters, so lower(), the order of strings and   *)
(* the substring test are tables over the strings the model uses.          *)
(***************************************************************************)
\* the strings the model lower-cases that hold no capital letter
NoCapitals ==
    {"", "alpha", "brunswick juventus fc u15", "brunswick juventus fc u16",
     "coaches heid", "competition overview", "competition overview ypl3",
     "complete", "dual reg missing scores", "dual registration heid", "fc",
     "fixtures yellow cards", "form heid", "goal", "heid", "heid u16",
     "heid vs juve", "heidelberg united fc u15", "heidelberg united fc u16",
     "heidelberg united fc u16 boys", "juve", "juve u15", "juve u16",
     "ladder u16", "lineup heid", "missing scores last week all leagues",
     "missing scores round 2", "missing scores today", "missing today",
     "missing today results", "my next match", "next match heid", "player",
     "postponed", "red cards details", "red_card", "scheduled",
     "staff top scorers", "stats for heid u16", "stats for zzz",
     "today results", "top scorers", "top scorers heid u16",
     "top scorers today", "u15 boys state league", "u16", "u16 boys ypl1",
     "united", "vpl", "who lost today", "yellow card red card",
     "yellow cards heid u16", "yellow_card", "ypl1", "ypl1 ladder",
     "ypl1 overview", "ypl1 standings", "ypl2", "ypl3 ladder", "ysl nw",
     "ysl se", "zzz", "ypl 1", "ypl 2",
     "vpl men", "vpl women", "ysl", "other" }

\* str.lower()
Lower(s) ==
    CASE s = "Bravo" -> "bravo"
      [] s = "U16 Boys YPL1" -> "u16 boys ypl1"
      [] s = "U15 Boys State League" -> "u15 boys state league"
      [] s = "U16 Boys YPL2" -> "u16 boys ypl2"
      [] s = "U15 YSL Boys - North-West" -> "u15 ysl boys - north-west"
      [] s = "U15 YSL Boys - South-East" -> "u15 ysl boys - south-east"
      [] s = "U18 Boys VPL Men" -> "u18 boys vpl men"
      [] s = "Round 1" -> "round 1"
      [] s = "Round 2" -> "round 2"
      [] s = "YPL1" -> "ypl1"
      [] s = "Other" -> "other"
      [] s = "Player" -> "player"
      [] s = "Coach" -> "coach"
      [] s = "Team Manager" -> "team manager"
      [] s = "U15" -> "u15"
      [] s = "U16" -> "u16"
      [] s = "Heid U16" -> "heid u16"
      [] s = "Heidelberg United FC" -> "heidelberg united fc"
      [] s = "Heidelberg United FC U15" -> "heidelberg united fc u15"
      [] s = "Heidelberg United FC U16" -> "heidelberg united fc u16"
      [] s = "Brunswick Juventus FC" -> "brunswick juventus fc"
      [] s = "Brunswick Juventus FC U15" -> "brunswick juventus fc u15"
      [] s = "Brunswick Juventus FC U16" -> "brunswick juventus fc u16"
      [] s = "Coach yellow cards" -> "coach yellow cards"
      [] s = "Goal" -> "goal"
      [] s = "None" -> "none"
      [] s = "VPL MEN" -> "vpl men"
      [] s = "VPL WOMEN" -> "vpl women"
      [] s = "YPL 1" -> "ypl 1"
      [] s = "YPL 2" -> "ypl 2"
      [] s = "YPL2" -> "ypl2"
      [] s = "YSL NORTH WEST" -> "ysl north west"
      [] s = "YSL NW" -> "ysl nw"
      [] s = "YSL SE" -> "ysl se"
      [] s = "YSL SOUTH EAST" -> "ysl south east"
      [] s = "VPL Men" -> "vpl men"
      [] s = "VPL Women" -> "vpl women"
      [] s = "YSL" -> "ysl"
      [] s \in NoCapitals -> s

\* str.upper(), of the texts tool_competition_overview is called with
Upper(s) ==
    CASE s = "ypl1 overview" -> "YPL1 OVERVIEW"
      [] s = "ypl1 standings" -> "YPL1 STANDINGS"
      [] s = "ypl2 overview" -> "YPL2 OVERVIEW"
      [] s = "ysl nw standings" -> "YSL NW STANDINGS"
      [] s = "vpl men overview" -> "VPL MEN OVERVIEW"
      [] s = "competition overview" -> "COMPETITION OVERVIEW"
      [] s = "competition overview ypl3" -> "COMPETITION OVERVIEW YPL3"

\* the place of a lower-cased team name in the order of Python strings
StrRank(s) ==
    CASE s = "" -> 0
      [] s = "alpha" -> 1
      [] s = "bravo" -> 2

\* the tokens the code looks for that occur in a string: in a lower-cased
\* one, and in an upper-cased one the keys and values of comp_mapping
Substrings(s) ==
    CASE s = "u16 boys ypl1" -> {"u16", "ypl1"}
      [] s = "YPL1 OVERVIEW" -> {"YPL1"}
      [] s = "YPL1 STANDINGS" -> {"YPL1"}
      [] s = "YPL2 OVERVIEW" -> {"YPL2"}
      [] s = "YSL NW STANDINGS" ->
             {"YSL", "YSL NW"}
      [] s = "VPL MEN OVERVIEW" ->
             {"VPL", "VPL MEN"}
      [] s = "u15 boys state league" -> {"u15"}
      [] s = "u16 boys ypl2" -> {"u16", "ypl2"}
      [] s = "u15 ysl boys - north-west" -> {"u15", "ysl", "north-west"}
      [] s = "u15 ysl boys - south-east" -> {"u15", "ysl", "south-east"}
      [] s = "u18 boys vpl men" -> {"u18", "vpl", "vpl men"}
      [] s = "ypl1" -> {"ypl1"}
      [] s = "ysl nw" -> {"ysl", "nw"}
      [] s = "ysl se" -> {"ysl", "se"}
      [] s = "heid u16" -> {"heid", "u16"}
      [] s = "top scorers heid u16" ->
             {"heid", "heid u16", "scorers", "top scorer", "top scorers",
              "u16"}
      [] s = "juve u15" -> {"juve", "u15"}
      [] s = "juve u16" -> {"juve", "u16"}
      [] s = "heidelberg united fc" -> {"heid", "heidelberg", "united", "fc"}
      [] s = "heidelberg united fc u15" ->
             {"heid", "heidelberg", "united", "fc", "heidelberg united fc",
              "u15"}
      [] s = "heidelberg united fc u16" ->
             {"heid", "heidelberg", "united", "fc", "heidelberg united fc",
              "u16"}
      [] s = "heidelberg united fc u16 boys" ->
             {"heid", "heidelberg", "united", "fc", "heidelberg united fc",
              "heidelberg united fc u16", "u16"}
      [] s = "brunswick juventus fc" -> {"brunswick", "juve", "fc"}
      [] s = "brunswick juventus fc u15" ->
             {"brunswick", "juve", "fc", "brunswick juventus fc", "u15"}
      [] s = "brunswick juventus fc u16" ->
             {"brunswick", "juve", "fc", "brunswick juventus fc", "u16"}
      [] s = "all leagues" ->
             {"all league", "leagues"}
      [] s = "coach yellow cards" ->
             {"coach", "yellow", "yellow card", "yellow cards"}
      [] s = "coaches heid" ->
             {"coach", "coaches", "heid"}
      [] s = "dual reg missing scores" ->
             {"dual", "dual reg", "missing", "missing score",
              "missing scores"}
      [] s = "dual registration heid" ->
             {"dual", "dual reg", "dual registration", "heid"}
      [] s = "fixtures yellow cards" ->
             {"fixture", "fixtures", "yellow", "yellow card", "yellow cards"}
      [] s = "form heid" ->
             {"form", "heid"}
      [] s = "heid vs juve" ->
             {" vs ", "heid", "juve"}
      [] s = "ladder u16" ->
             {"ladder", "u16"}
      [] s = "lineup heid" ->
             {"heid", "lineup"}
      [] s = "missing scores" ->
             {"missing", "missing score"}
      [] s = "missing scores last week all leagues" ->
             {"all league", "all leagues", "last week", "leagues", "missing",
              "missing score", "missing scores"}
      [] s = "missing scores round 2" ->
             {"missing", "missing score", "missing scores", "round",
              "round 2"}
      [] s = "missing scores today" ->
             {"missing", "missing score", "missing scores", "today"}
      [] s = "missing today" ->
             {"missing", "today"}
      [] s = "missing today results" ->
             {"missing", "missing today", "result", "results", "today",
              "today results"}
      [] s = "my next match" ->
             {"my next", "next match"}
      [] s = "next match heid" ->
             {"heid", "next match"}
      [] s = "red cards details" ->
             {"detail", "details", "red", "red card"}
      [] s = "staff top scorers" ->
             {"scorers", "staff", "top scorer", "top scorers"}
      [] s = "stats for heid u16" ->
             {"heid", "heid u16", "stats", "stats for", "u16"}
      [] s = "stats for zzz" ->
             {"stats", "stats for", "zzz"}
      [] s = "today results" ->
             {"result", "results", "today"}
      [] s = "top scorers" ->
             {"scorers", "top scorer"}
      [] s = "top scorers today" ->
             {"scorers", "scorers today", "today", "top scorer",
              "top scorers"}
      [] s = "who lost today" ->
             {"lost", "today"}
      [] s = "yellow card red card" ->
             {"red", "red card", "yellow", "yellow card"}
      [] s = "yellow cards" ->
             {"yellow", "yellow card"}
      [] s = "yellow cards heid u16" ->
             {"heid", "heid u16", "u16", "yellow", "yellow card",
              "yellow cards"}
      [] s = "ypl1 ladder" ->
             {"ladder", "ypl1"}
      [] s = "ypl1 overview" ->
             {"overview", "ypl1"}
      [] s = "ypl2 overview" ->
             {"overview", "ypl2"}
      [] s = "ysl nw standings" ->
             {"nw", "standings", "ysl", "ysl nw"}
      [] s = "vpl men overview" ->
             {"overview", "vpl", "vpl men"}
      [] s = "competition overview" ->
             {"competition", "overview", "competition overview"}
      [] s = "competition overview ypl3" ->
             {"competition", "overview", "competition overview"}
      [] s = "ypl3 ladder" ->
             {"ladder"}
      [] s = "ypl1 standings" ->
             {"standings", "ypl1"}
      [] s = "red_card" ->
             {"red"}
      [] s = "round 1" ->
             {"round"}
      [] s = "round 2" ->
             {"round"}
      [] s = "scheduled" ->
             {"schedule"}
      [] s = "team manager" ->
             {"manager"}
      [] s = "vpl men" ->
             {"vpl"}
      [] s = "vpl women" ->
             {"vpl"}
      [] s = "yellow_card" ->
             {"yellow"}
      [] s = "ysl north west" ->
             {"north west", "ysl"}
      [] s = "ysl south east" ->
             {"south east", "ysl"}
      [] OTHER -> {}

\* sub in s: a string is in itself
Contains(sub, s) == sub = s \/ sub \in Substrings(s)


(***************************************************************************)
(* Match records of results (master_results.json, "attributes").           *)
(***************************************************************************)
\* a score key that is absent from the record
NoKey == -2
\* a score that is JSON null
Null == -1
\* a team name that is absent or null
NoName == "<None>"
\* no age group in the query
NoAge == "<None>"

TeamNames == {"alpha", "Bravo"}
LeagueNames == {"U16 Boys YPL1"}
Statuses == {"complete", "scheduled"}
Scores == {NoKey, Null, 0, 1}

\* the scores of a record: both entered, none entered (absent or null), or one
ScorePairs ==
    ((0..1) \X (0..1)) \cup
    {<<NoKey, NoKey>>, <<Null, Null>>, <<1, NoKey>>, <<Null, 1>>}

\* every record the snapshot can hold: two different teams, or one team and a bye
MatchRecords ==
    { [league_name |-> l, home_team_name |-> h, away_team_name |-> a,
       home_score |-> sc[1], away_score |-> sc[2], status |-> st] :
        l \in LeagueNames,
        h \in TeamNames \cup {NoName},
        a \in TeamNames \cup {NoName},
        sc \in ScorePairs,
        st \in Statuses } \
    { [league_name |-> l, home_team_name |-> h, away_team_name |-> h,
       home_score |-> sc[1], away_score |-> sc[2], status |-> st] :
        l \in LeagueNames,
        h \in TeamNames \cup {NoName},
        sc \in ScorePairs,
        st \in Statuses }

NoRecord ==
    [league_name |-> "", home_team_name |-> NoName, away_team_name |-> NoName,
     home_score |-> NoKey, away_score |-> NoKey, status |-> ""]

\* the queries of tool_ladder after lines 2270-2293
LadderQueries ==
    { [competition_to_use |-> "ypl1", age_group_lower |-> NoAge],
      [competition_to_use |-> "ypl1", age_group_lower |-> "u15"],
      [competition_to_use |-> "ypl2", age_group_lower |-> NoAge] }
NoQuery == [competition_to_use |-> "", age_group_lower |-> NoAge]

(***************************************************************************)
(* Resolver (src/fast_agent.py): aliases, age groups, team names.          *)
(***************************************************************************)
\* the length of a lower-cased team or club name
StrLen(s) ==
    CASE s = "heidelberg united fc" -> 20
      [] s = "heidelberg united fc u15" -> 24
      [] s = "heidelberg united fc u16" -> 24
      [] s = "brunswick juventus fc u15" -> 25
      [] s = "brunswick juventus fc u16" -> 25
      [] OTHER -> 0

\* CLUB_ALIASES, in the order of the dict: some aliases of two clubs
CLUB_ALIASES ==
    << <<"heidelberg", "Heidelberg United FC">>,
       <<"heidelberg united fc", "Heidelberg United FC">>,
       <<"heid", "Heidelberg United FC">>,
       <<"brunswick", "Brunswick Juventus FC">>,
       <<"juve", "Brunswick Juventus FC">> >>

\* the team names the people of a snapshot can have, in sorted order
KnownTeams ==
    << "Brunswick Juventus FC U15", "Brunswick Juventus FC U16",
       "Heidelberg United FC U15", "Heidelberg United FC U16" >>

\* team_names of a snapshot whose people have the teams at the places S
TeamNamesOf(S) ==
    [k \in 1..Cardinality(S) |->
        KnownTeams[CHOOSE i \in S : Cardinality({j \in S : j < i}) = k - 1]]

\* the texts a resolver is asked about
ResolverTexts ==
    {"heid u16", "Heid U16", "heid", "juve u16", "u16", "zzz",
     "Heidelberg United FC U16"}

\* extract_age_group: the age group of the text in capitals, NoAge for None
extract_age_group(q) ==
    IF Contains("u16", Lower(q)) THEN "U16"
    ELSE IF Contains("u15", Lower(q)) THEN "U15"
    ELSE NoAge

\* get_canonical_club_name: the alias the text is, else the first alias of
\* the table the text contains; NoName for None
get_canonical_club_name(q) ==
    LET query_lower == Lower(q)
        direct == {i \in DOMAIN CLUB_ALIASES : CLUB_ALIASES[i][1] = query_lower}
        inside == {i \in DOMAIN CLUB_ALIASES : Contains(CLUB_ALIASES[i][1], query_lower)}
        First(S) == CHOOSE i \in S : \A j \in S : i <= j
    IN  IF direct # {} THEN CLUB_ALIASES[First(direct)][2]
        ELSE IF inside # {} THEN CLUB_ALIASES[First(inside)][2]
        ELSE NoName

\* f"{canonical_club} {age_group}"
Composite(club, age) == club \o " " \o age

\* fuzzy_team: the step that answers, 1 exact, 2 a name containing the text,
\* 3 a name the text contains, 4 fuzzy_find
FuzzyTeamStep(q, tn) ==
    LET q_lower == Lower(q)
        lowered == [i \in DOMAIN tn |-> Lower(tn[i])]
    IN  IF \E i \in DOMAIN tn : lowered[i] = q_lower THEN 1
        ELSE IF \E i \in DOMAIN tn : Contains(q_lower, lowered[i]) THEN 2
        ELSE IF \E i \in DOMAIN tn : Contains(lowered[i], q_lower) THEN 3
        ELSE 4

\* fuzzy_find with WRatio: one of the choices, or None
fuzzy_find(q_lower, choices) ==
    {NoName} \cup {choices[i] : i \in DOMAIN choices}

\* fuzzy_team: what it can return (lines 421-450)
fuzzy_team(q, tn) ==
    LET q_lower == Lower(q)
        lowered == [i \in DOMAIN tn |-> Lower(tn[i])]
        exact_matches == {i \in DOMAIN tn : Contains(q_lower, lowered[i])}
        reverse_matches == {i \in DOMAIN tn : Contains(lowered[i], q_lower)}
        Shortest(S) == CHOOSE i \in S : \A j \in S :
                           \/ StrLen(lowered[i]) < StrLen(lowered[j])
                           \/ StrLen(lowered[i]) = StrLen(lowered[j]) /\ i <= j
        Longest(S) == CHOOSE i \in S : \A j \in S :
                          \/ StrLen(lowered[i]) > StrLen(lowered[j])
                          \/ StrLen(lowered[i]) = StrLen(lowered[j]) /\ i <= j
        step == FuzzyTeamStep(q, tn)
    IN  IF step = 1 THEN {q_lower}
        ELSE IF step = 2 THEN {lowered[Shortest(exact_matches)]}
        ELSE IF step = 3 THEN {lowered[Longest(reverse_matches)]}
        ELSE fuzzy_find(q_lower, lowered)

\* lines 454-468: the text normalize_team hands to fuzzy_team
NormalizedQuery(q) ==
    LET q_lower == Lower(q)
        canonical_club == get_canonical_club_name(q_lower)
        age_group == extract_age_group(q_lower)
    IN  IF canonical_club = NoName THEN q
        ELSE IF age_group # NoAge THEN Composite(canonical_club, age_group)
        ELSE canonical_club

\* normalize_team: what it can return
normalize_team(q, tn) ==
    IF q = "" THEN {NoName} ELSE fuzzy_team(NormalizedQuery(q), tn)

\* a handler resolves the team of a text
CallNormalizeTeam ==
    /\ \E q \in ResolverTexts :
           /\ text' = q
           /\ resolved' \in normalize_team(q, team_names)
           /\ fuzzy_used' = (FuzzyTeamStep(NormalizedQuery(q), team_names) = 4)
    /\ rpc' = "done"
    /\ UNCHANGED <<team_names, fuzzy_score>>

\* the team names fuzzy_team is tried on, in sorted order: a club's team
\* without an age group beside its teams with one
FuzzyTeamList ==
    << "Brunswick Juventus FC U16", "Heidelberg United FC",
       "Heidelberg United FC U15", "Heidelberg United FC U16" >>

\* the elements of a list at the places S, in the order of the list
SubList(list, S) ==
    [k \in 1..Cardinality(S) |->
        list[CHOOSE i \in S : Cardinality({j \in S : j < i}) = k - 1]]

\* the texts fuzzy_team is asked about
FuzzyTexts ==
    {"heidelberg united fc u16", "heid", "juve", "u16",
     "heidelberg united fc u16 boys", "zzz"}

\* the scores WRatio can give the best choice
FuzzyScores == {0, 60, 74, 75, 100}

\* process.extractOne(query, choices, scorer=fuzz.WRatio): a choice and its score
extractOne(choices) ==
    {[match |-> choices[i], score |-> sc] : i \in DOMAIN choices, sc \in FuzzyScores}

\* fuzzy_find (lines 369-376) with the score it saw
fuzzy_find_scored(choices, threshold) ==
    IF choices = << >> THEN {[result |-> NoName, score |-> Null]}
    ELSE {[result |-> IF o.score >= threshold THEN o.match ELSE NoName,
           score |-> o.score] : o \in extractOne(choices)}

\* fuzzy_team with the longest name taken where several names hold the text
fuzzy_team_scored_longest(q, tn) ==
    LET q_lower == Lower(q)
        lowered == [i \in DOMAIN tn |-> Lower(tn[i])]
        exact_matches == {i \in DOMAIN tn : Contains(q_lower, lowered[i])}
        reverse_matches == {i \in DOMAIN tn : Contains(lowered[i], q_lower)}
        Longest(S) == CHOOSE i \in S : \A j \in S :
                          \/ StrLen(lowered[i]) > StrLen(lowered[j])
                          \/ StrLen(lowered[i]) = StrLen(lowered[j]) /\ i <= j
        step == FuzzyTeamStep(q, tn)
    IN  IF step = 1 THEN {[result |-> q_lower, score |-> Null]}
        ELSE IF step = 2
             THEN {[result |-> lowered[Longest(exact_matches)], score |-> Null]}
        ELSE IF step = 3
             THEN {[result |-> lowered[Longest(reverse_matches)], score |-> Null]}
        ELSE fuzzy_find_scored(lowered, 75)

\* fuzzy_team (lines 421-450) with the score of line 450
fuzzy_team_scored(q, tn) ==
    LET q_lower == Lower(q)
        lowered == [i \in DOMAIN tn |-> Lower(tn[i])]
        exact_matches == {i \in DOMAIN tn : Contains(q_lower, lowered[i])}
        reverse_matches == {i \in DOMAIN tn : Contains(lowered[i], q_lower)}
        Shortest(S) == CHOOSE i \in S : \A j \in S :
                           \/ StrLen(lowered[i]) < StrLen(lowered[j])
                           \/ StrLen(lowered[i]) = StrLen(lowered[j]) /\ i <= j
        Longest(S) == CHOOSE i \in S : \A j \in S :
                          \/ StrLen(lowered[i]) > StrLen(lowered[j])
                          \/ StrLen(lowered[i]) = StrLen(lowered[j]) /\ i <= j
        step == FuzzyTeamStep(q, tn)
    IN  IF step = 1 THEN {[result |-> q_lower, score |-> Null]}
        ELSE IF step = 2
             THEN {[result |-> lowered[Shortest(exact_matches)], score |-> Null]}
        ELSE IF step = 3
             THEN {[result |-> lowered[Longest(reverse_matches)], score |-> Null]}
        ELSE fuzzy_find_scored(lowered, 75)

\* normalize_team hands a text to fuzzy_team
CallFuzzyTeam ==
    /\ \E q \in FuzzyTexts :
         \E o \in fuzzy_team_scored(q, team_names) :
           /\ text' = q
           /\ resolved' = o.result
           /\ fuzzy_score' = o.score
           /\ fuzzy_used' = (FuzzyTeamStep(q, team_names) = 4)
    /\ rpc' = "done"
    /\ UNCHANGED team_names

(***************************************************************************)
(* tool_ladder (src/fast_agent.py).                                        *)
(***************************************************************************)
\* the defaultdict's factory
NewRow(team) ==
    [team |-> team, P |-> 0, W |-> 0, D |-> 0, L |-> 0, GF |-> 0, GA |-> 0, PTS |-> 0]

\* table[team][f] += n, the row made on first use
Bump(tbl, team, f, n) ==
    LET t == IF \E i \in DOMAIN tbl : tbl[i].team = team
             THEN tbl ELSE Append(tbl, NewRow(team))
    IN  [i \in DOMAIN t |->
            IF t[i].team = team THEN [t[i] EXCEPT ![f] = @ + n] ELSE t[i]]

\* a.get("home_team_name") or ""
NameOrEmpty(n) == IF n = NoName THEN "" ELSE n

\* int(a.get("home_score", 0)) raises TypeError on None
IntRaises(s) == s = Null
IntOr0(s) == IF s = NoKey THEN 0 ELSE s

\* lines 2301-2311: the record is of the competition and age group asked for
LadderSelects(rec, q) ==
    LET league_name == Lower(rec.league_name)
        comp_name == ""
        comp_match == Contains(q.competition_to_use, league_name)
                        \/ Contains(q.competition_to_use, comp_name)
    IN  /\ comp_match
        /\ ~(/\ q.age_group_lower # NoAge
             /\ ~Contains(q.age_group_lower, league_name)
             /\ ~Contains(q.age_group_lower, comp_name))

\* the accumulation with the away win credited to the home side
LadderAccumulate_home_gets_away_win(tbl, home, away, hs, as) ==
    LET t1 == Bump(tbl, home, "P", 1)
        t2 == Bump(t1, away, "P", 1)
        t3 == Bump(t2, home, "GF", hs)
        t4 == Bump(t3, home, "GA", as)
        t5 == Bump(t4, away, "GF", as)
        t6 == Bump(t5, away, "GA", hs)
    IN  IF hs > as
        THEN Bump(Bump(Bump(t6, home, "W", 1), away, "L", 1), home, "PTS", 3)
        ELSE IF hs < as
        THEN Bump(Bump(Bump(t6, away, "W", 1), home, "L", 1), home, "PTS", 3)
        ELSE Bump(Bump(Bump(Bump(t6, home, "D", 1), away, "D", 1),
                       home, "PTS", 1), away, "PTS", 1)

\* lines 2323-2342
LadderAccumulate(tbl, home, away, hs, as) ==
    LET t1 == Bump(tbl, home, "P", 1)
        t2 == Bump(t1, away, "P", 1)
        t3 == Bump(t2, home, "GF", hs)
        t4 == Bump(t3, home, "GA", as)
        t5 == Bump(t4, away, "GF", as)
        t6 == Bump(t5, away, "GA", hs)
    IN  IF hs > as
        THEN Bump(Bump(Bump(t6, home, "W", 1), away, "L", 1), home, "PTS", 3)
        ELSE IF hs < as
        THEN Bump(Bump(Bump(t6, away, "W", 1), home, "L", 1), away, "PTS", 3)
        ELSE Bump(Bump(Bump(Bump(t6, home, "D", 1), away, "D", 1),
                       home, "PTS", 1), away, "PTS", 1)

\* one pass of the loop of lines 2299-2342
LadderBody(tbl, rec, q) ==
    IF ~LadderSelects(rec, q) THEN tbl
    ELSE IF IntRaises(rec.home_score) \/ IntRaises(rec.away_score) THEN tbl
    ELSE LadderAccumulate(tbl, NameOrEmpty(rec.home_team_name),
                          NameOrEmpty(rec.away_team_name),
                          IntOr0(rec.home_score), IntOr0(rec.away_score))

\* the sort key of lines 2350-2354, reverse=True: x goes before y
LadderBefore(x, y) ==
    LET gdx == x.GF - x.GA
        gdy == y.GF - y.GA
    IN  \/ x.PTS > y.PTS
        \/ x.PTS = y.PTS /\ gdx > gdy
        \/ x.PTS = y.PTS /\ gdx = gdy /\ x.GF > y.GF

\* the rank of row i of s in the stable sort by the key of tool_ladder
LadderRank(s, i) ==
    1 + Cardinality({ j \in DOMAIN s :
            \/ LadderBefore(s[j], s[i])
            \/ (~LadderBefore(s[i], s[j]) /\ j < i) })

\* sorted(table.items(), key, reverse=True): stable, equal keys keep their order
LadderSorted(s) ==
    [k \in DOMAIN s |-> s[CHOOSE i \in DOMAIN s : LadderRank(s, i) = k]]

\* lines 2350-2371: the rows of the table returned
LadderData(tbl) ==
    LET s == LadderSorted(tbl)
    IN  [pos \in DOMAIN s |->
            [Pos |-> pos, Team |-> s[pos].team, P |-> s[pos].P, W |-> s[pos].W,
             D |-> s[pos].D, L |-> s[pos].L, GF |-> s[pos].GF, GA |-> s[pos].GA,
             GD |-> s[pos].GF - s[pos].GA, PTS |-> s[pos].PTS]]

CallToolLadder ==
    /\ pc = "idle"
    /\ \E q \in LadderQueries : query' = q
    /\ fn' = "tool_ladder"
    /\ pc' = "loop"
    /\ table' = <<>>
    /\ UNCHANGED <<r, scanned, ladder>>

ToolLadderLoop ==
    /\ pc = "loop" /\ fn = "tool_ladder"
    /\ scanned < MaxResults
    /\ \E rec \in MatchRecords :
        /\ r' = rec
        /\ table' = LadderBody(table, rec, query)
    /\ scanned' = scanned + 1
    /\ UNCHANGED <<pc, fn, query, ladder>>

ToolLadderReturn ==
    /\ pc = "loop" /\ fn = "tool_ladder"
    /\ ladder' = LadderData(table)
    /\ pc' = "done"
    /\ UNCHANGED <<fn, query, r, scanned, table>>

(***************************************************************************)
(* compute_ladder_from_results (src/app.py).                               *)
(***************************************************************************)
CNewRow(team) ==
    [key |-> team, club |-> "", played |-> 0, wins |-> 0, draws |-> 0,
     losses |-> 0, gf |-> 0, ga |-> 0, gd |-> 0, points |-> 0]

CTouch(tbl, team) ==
    IF \E i \in DOMAIN tbl : tbl[i].key = team
    THEN tbl ELSE Append(tbl, CNewRow(team))

\* table[team][f] += n
CBump(tbl, team, f, n) ==
    LET t == CTouch(tbl, team)
    IN  [i \in DOMAIN t |->
            IF t[i].key = team THEN [t[i] EXCEPT ![f] = @ + n] ELSE t[i]]

\* lines 963-965
CSetClub(tbl, team) ==
    LET t == CTouch(tbl, team)
    IN  [i \in DOMAIN t |->
            IF t[i].key = team /\ t[i].club = ""
            THEN [t[i] EXCEPT !.club = team] ELSE t[i]]

\* lines 967-986
ComputeAccumulate(tbl, home, away, hs, as) ==
    LET t0 == CSetClub(CSetClub(tbl, home), away)
        t1 == CBump(t0, home, "played", 1)
        t2 == CBump(t1, away, "played", 1)
        t3 == CBump(t2, home, "gf", hs)
        t4 == CBump(t3, home, "ga", as)
        t5 == CBump(t4, away, "gf", as)
        t6 == CBump(t5, away, "ga", hs)
    IN  IF hs > as
        THEN CBump(CBump(CBump(t6, home, "wins", 1), away, "losses", 1),
                   home, "points", 3)
        ELSE IF hs < as
        THEN CBump(CBump(CBump(t6, away, "wins", 1), home, "losses", 1),
                   away, "points", 3)
        ELSE CBump(CBump(CBump(CBump(t6, home, "draws", 1), away, "draws", 1),
                         home, "points", 1), away, "points", 1)

\* attrs.get(k) is None: the key is absent or null
IsNone(s) == s = NoKey \/ s = Null

\* one pass of the loop of lines 947-986
ComputeBody(tbl, rec) ==
    IF \/ rec.home_team_name = NoName \/ rec.away_team_name = NoName
       \/ IsNone(rec.home_score) \/ IsNone(rec.away_score)
    THEN tbl
    ELSE ComputeAccumulate(tbl, rec.home_team_name, rec.away_team_name,
                           rec.home_score, rec.away_score)

\* the sort key of lines 991-1000: x goes before y
ComputeBefore(x, y) ==
    \/ x.points > y.points
    \/ x.points = y.points /\ x.gd > y.gd
    \/ x.points = y.points /\ x.gd = y.gd /\ x.gf > y.gf
    \/ x.points = y.points /\ x.gd = y.gd /\ x.gf = y.gf /\ x.ga < y.ga
    \/ /\ x.points = y.points /\ x.gd = y.gd /\ x.gf = y.gf /\ x.ga = y.ga
       /\ StrRank(Lower(x.club)) < StrRank(Lower(y.club))

\* the rank of row i of s in the stable sort by the key of compute_ladder_from_results
ComputeRank(s, i) ==
    1 + Cardinality({ j \in DOMAIN s :
            \/ ComputeBefore(s[j], s[i])
            \/ (~ComputeBefore(s[i], s[j]) /\ j < i) })

\* sorted(table.values(), key): stable
ComputeSorted(s) ==
    [k \in DOMAIN s |-> s[CHOOSE i \in DOMAIN s : ComputeRank(s, i) = k]]

\* lines 988-1001
ComputeLadder(tbl) ==
    ComputeSorted([i \in DOMAIN tbl |-> [tbl[i] EXCEPT !.gd = tbl[i].gf - tbl[i].ga]])

CallComputeLadder ==
    /\ pc = "idle"
    /\ fn' = "compute_ladder_from_results"
    /\ pc' = "loop"
    /\ table' = <<>>
    /\ UNCHANGED <<query, r, scanned, ladder>>

ComputeLadderLoop ==
    /\ pc = "loop" /\ fn = "compute_ladder_from_results"
    /\ scanned < MaxResults
    /\ \E rec \in MatchRecords :
        /\ r' = rec
        /\ table' = ComputeBody(table, rec)
    /\ scanned' = scanned + 1
    /\ UNCHANGED <<pc, fn, query, ladder>>

ComputeLadderReturn ==
    /\ pc = "loop" /\ fn = "compute_ladder_from_results"
    /\ ladder' = ComputeLadder(table)
    /\ pc' = "done"
    /\ UNCHANGED <<fn, query, r, scanned, table>>

(***************************************************************************)
(* tool_missing_scores (src/fast_agent.py).                                *)
(*                                                                         *)
(* The attributes of a fixture or a result are a function from the keys    *)
(* the JSON object has to their values, so that dict.update and            *)
(* dict.get(k, default) tell an absent key from a null one.  A match       *)
(* hash id is a positive number standing for the hash string.  The rows    *)
(* of missing_scores carry the hash id of the match they were made from,   *)
(* which the code's rows do not, so that a row can be traced to its match. *)
(***************************************************************************)
\* two Sundays of fixtures: Saturday 23:00 UTC is Sunday 09:00 in Melbourne
FirstSunday == 5 * 24 + 23
SecondSunday == FirstSunday + 7 * 24
\* the instants a call is made at: Wednesday 12:00 and the second Sunday 13:00, local
NowChoices == {9 * 24 + 2, 13 * 24 + 3}

\* match_day = None
NoDay == -1000

\* attrs.get(k, dflt)
Get(attrs, k, dflt) == IF k \in DOMAIN attrs THEN attrs[k] ELSE dflt

\* a team name in an f-string
Shown(n) == IF n = NoName THEN "None" ELSE n

\* what a handler that raised left behind
Raised(e) == [type |-> "raise", error |-> e, data |-> << >>]

\* not v, for a string or None
Falsy(v) == v \in {NoName, ""}

\* the fixtures master_fixtures.json can hold for the match with hash id mid:
\* a round a week, two teams or a bye, a target league or another, and a
\* match whose home or away team name is null
FixtureRecords(mid) ==
    { [match_hash_id |-> mid, date |-> sh[1],
       round |-> IF sh[1] = FirstSunday THEN "Round 1" ELSE "Round 2",
       league_name |-> "U16 Boys YPL1",
       home_team_name |-> "alpha", away_team_name |-> "Bravo",
       home_team_hash_id |-> sh[2], away_team_hash_id |-> sh[3],
       ground_name |-> "Olympic Park", status |-> "scheduled"] :
        sh \in { <<FirstSunday, "h1", "h2">>, <<FirstSunday, "h1", NoName>>,
                 <<SecondSunday, "h1", "h2">>, <<SecondSunday, "", "h2">> } } \cup
    { [match_hash_id |-> mid, date |-> FirstSunday, round |-> "Round 1",
       league_name |-> "U15 Boys State League",
       home_team_name |-> "alpha", away_team_name |-> "Bravo",
       home_team_hash_id |-> "h1", away_team_hash_id |-> "h2",
       ground_name |-> "Olympic Park", status |-> "scheduled"] } \cup
    { [match_hash_id |-> mid, date |-> FirstSunday, round |-> "Round 1",
       league_name |-> "U16 Boys YPL1",
       home_team_name |-> nm[1], away_team_name |-> nm[2],
       home_team_hash_id |-> "h1", away_team_hash_id |-> "h2",
       ground_name |-> "Olympic Park", status |-> "scheduled"] :
        nm \in { <<NoName, "Bravo">>, <<"alpha", NoName>> } }

\* the results master_results.json can hold: entered and complete, one score
\* null, entered but not complete, and a match put off to the second Sunday
ResultRecords ==
    { [match_hash_id |-> 1, status |-> "complete", home_score |-> 1, away_score |-> 0],
      [match_hash_id |-> 1, status |-> "complete", home_score |-> 1, away_score |-> Null],
      [match_hash_id |-> 1, status |-> "scheduled", home_score |-> 0, away_score |-> 0],
      [match_hash_id |-> 2, status |-> "postponed", date |-> SecondSunday,
       ground_name |-> "Reserve"] }

\* the arguments the router passes: query, include_all_leagues, and the mode
MissingArgs ==
    { [query |-> q[1], include_all_leagues |-> q[2],
       today_only |-> md[1], last_week |-> md[2], round_filter |-> md[3]] :
        q \in {<<"", FALSE>>, <<"u16", TRUE>>, <<"ypl1 ladder", TRUE>>},
        md \in {<<FALSE, FALSE, Null>>, <<TRUE, FALSE, Null>>,
                <<FALSE, TRUE, Null>>, <<FALSE, FALSE, 2>>} }
NoArgs ==
    [query |-> "", include_all_leagues |-> FALSE,
     today_only |-> FALSE, last_week |-> FALSE, round_filter |-> Null]

\* lines 766-793: match_day of the mode
MatchDay(a, h) ==
    IF a.round_filter # Null THEN NoDay
    ELSE IF a.today_only THEN get_match_day_date(h)
    ELSE IF a.last_week THEN get_match_day_date(h) - 7
    ELSE NoDay

\* lines 796-801: the last result of each hash id
ResultLookup(rss) ==
    LET mids == { Get(rss[j], "match_hash_id", 0) : j \in DOMAIN rss } \ {0}
    IN  [mid \in mids |->
            LET last == CHOOSE j \in DOMAIN rss :
                            /\ Get(rss[j], "match_hash_id", 0) = mid
                            /\ \A k \in DOMAIN rss :
                                   Get(rss[k], "match_hash_id", 0) = mid => k <= j
            IN  rss[last]]

\* the merge with the fixture's value kept wherever the fixture has the key
Merge_fixture_wins(f_attrs, lookup) ==
    LET mid == Get(f_attrs, "match_hash_id", 0)
    IN  IF mid # 0 /\ mid \in DOMAIN lookup
        THEN [k \in DOMAIN f_attrs \cup DOMAIN lookup[mid] \cup {"source"} |->
                 IF k = "source" THEN "result"
                 ELSE IF k \in DOMAIN f_attrs THEN f_attrs[k]
                 ELSE lookup[mid][k]]
        ELSE [k \in DOMAIN f_attrs \cup {"source"} |->
                 IF k = "source" THEN "fixture_only" ELSE f_attrs[k]]

\* lines 811-819: dict(f_attrs), update(result_lookup[mid]), source
Merge(f_attrs, lookup) ==
    LET mid == Get(f_attrs, "match_hash_id", 0)
    IN  IF mid # 0 /\ mid \in DOMAIN lookup
        THEN [k \in DOMAIN f_attrs \cup DOMAIN lookup[mid] \cup {"source"} |->
                 IF k = "source" THEN "result"
                 ELSE IF k \in DOMAIN lookup[mid] THEN lookup[mid][k]
                 ELSE f_attrs[k]]
        ELSE [k \in DOMAIN f_attrs \cup {"source"} |->
                 IF k = "source" THEN "fixture_only" ELSE f_attrs[k]]

\* lines 809-820
\* the matches with the results that belong to no fixture added at the end
AllMatches_with_results(fxs, lookup) ==
    LET orphans == { mid \in DOMAIN lookup :
                        \A i \in DOMAIN fxs : Get(fxs[i], "match_hash_id", 0) # mid }
        order == CHOOSE o \in [1..Cardinality(orphans) -> orphans] :
                     \A i, j \in DOMAIN o : i < j => o[i] < o[j]
    IN  [i \in DOMAIN fxs |-> Merge(fxs[i], lookup)]
            \o [i \in DOMAIN order |->
                   [k \in DOMAIN lookup[order[i]] \cup {"source"} |->
                       IF k = "source" THEN "result" ELSE lookup[order[i]][k]]]

\* lines 808-820
AllMatches(fxs, lookup) == [i \in DOMAIN fxs |-> Merge(fxs[i], lookup)]

\* lines 814 and 818: the merge works on a copy, fixtures stays as it was
FixturesAfter(fxs, lookup) == fxs

\* parse_date_utc_to_aest on "...Z": the instant, its Melbourne date and hour
parse_date_utc_to_aest(s) ==
    [instant |-> s, date |-> LocalDate(s), hour |-> (s + UtcOffset(s)) % 24]

\* lines 1483-1505
extract_league_from_league_name(league_name) ==
    LET l == Lower(league_name)
    IN  IF league_name = "" THEN "Other"
        ELSE IF Contains("ypl1", l) \/ Contains("ypl 1", l) THEN "YPL1"
        ELSE IF Contains("ypl2", l) \/ Contains("ypl 2", l) THEN "YPL2"
        ELSE IF Contains("ysl", l) /\ (\/ Contains("north-west", l)
                                       \/ Contains("nw", l)
                                       \/ Contains("north west", l)) THEN "YSL NW"
        ELSE IF Contains("ysl", l) /\ (\/ Contains("south-east", l)
                                       \/ Contains("se", l)
                                       \/ Contains("south east", l)) THEN "YSL SE"
        ELSE IF Contains("vpl men", l) THEN "VPL Men"
        ELSE IF Contains("vpl women", l) THEN "VPL Women"
        ELSE IF Contains("ysl", l) THEN "YSL"
        ELSE "Other"

\* line 761
target_leagues(a) ==
    IF a.include_all_leagues THEN {} ELSE {"YPL1", "YPL2", "YSL NW", "YSL SE", "VPL"}

\* re.search(r'(\d+)', match_round): the first number of a round, Null without one
RoundNumber(s) ==
    CASE s = "Round 1" -> 1
      [] s = "Round 2" -> 2
      [] OTHER -> Null

\* lines 923 and 1146: the league codes a query is searched for, in order
possible_leagues ==
    <<"ypl1", "ypl2", "ysl nw", "ysl se", "vpl men", "vpl women", "ypl 1",
      "ypl 2">>

\* lines 922-927 and 1145-1149: the league of the first code the query
\* holds, NoName for None
query_league_code(q) ==
    LET held == { i \in DOMAIN possible_leagues :
                    Contains(possible_leagues[i], q) }
    IN  IF held = {} THEN NoName
        ELSE extract_league_from_league_name(
                 possible_leagues[CHOOSE i \in held : \A j \in held : i <= j])

\* lines 872-885, with line 852: the date window of the mode
\* the date window with the past bound a day further back
InWindow_fifteen_days(a, md, day0, match_date) ==
    /\ ~(a.today_only /\ md # NoDay /\ match_date # md)
    /\ IF a.round_filter # Null THEN TRUE
       ELSE IF md # NoDay THEN match_date = md
       ELSE LET days_diff == match_date - day0
            IN  ~(days_diff > 0 \/ days_diff < -15)

InWindow(a, md, day0, match_date) ==
    /\ ~(a.today_only /\ md # NoDay /\ match_date # md)
    /\ IF a.round_filter # Null THEN TRUE
       ELSE IF md # NoDay THEN match_date = md
       ELSE LET days_diff == match_date - day0
            IN  ~(days_diff > 0 \/ days_diff < -14)

\* the bye test with the home side only
IsBye_home_only(attrs) ==
    Falsy(Get(attrs, "home_team_hash_id", NoName))

\* line 892
IsBye(attrs) ==
    \/ Falsy(Get(attrs, "home_team_hash_id", NoName))
    \/ Falsy(Get(attrs, "away_team_hash_id", NoName))

\* lines 895-898
LeagueOk(a, attrs) ==
    target_leagues(a) # {} =>
        extract_league_from_league_name(Get(attrs, "league_name", "")) \in target_leagues(a)

\* line 901
match_round(attrs) ==
    IF ~Falsy(Get(attrs, "round", "")) THEN attrs["round"]
    ELSE IF ~Falsy(Get(attrs, "full_round", "")) THEN attrs["full_round"]
    ELSE ""

\* lines 904-907
RoundOk(a, attrs) ==
    a.round_filter # Null =>
        /\ RoundNumber(match_round(attrs)) # Null
        /\ RoundNumber(match_round(attrs)) = a.round_filter

\* lines 910-944
QueryOk(a, attrs) ==
    a.query # "" =>
        LET q_lower == Lower(a.query)
            league == Get(attrs, "league_name", "")
            match_league_code == extract_league_from_league_name(league)
            search_blob == { Lower(Shown(Get(attrs, "home_team_name", "Unknown"))),
                             Lower(Shown(Get(attrs, "away_team_name", "Unknown"))),
                             Lower(league), Lower(match_league_code),
                             Lower(match_round(attrs)) }
            InBlob(sub) == \E part \in search_blob : Contains(sub, part)
            age_group == extract_age_group(q_lower)
            canonical_club == get_canonical_club_name(q_lower)
            code == query_league_code(q_lower)
        IN  /\ ~(code # NoName /\ Lower(match_league_code) # Lower(code))
            /\ ~(age_group # NoAge /\ ~InBlob(Lower(age_group)))
            /\ ~(canonical_club # NoName /\ ~InBlob(Lower(canonical_club)))
            /\ ~(/\ age_group = NoAge /\ canonical_club = NoName /\ code = NoName
                 /\ ~InBlob(q_lower))

\* line 949
StatusOf(attrs) ==
    LET s == Get(attrs, "status", NoName)
    IN  Lower(IF Falsy(s) THEN "" ELSE s)

\* needs_score without the test of the date
NeedsScore_any_date(attrs, match_date, day0) ==
    \/ StatusOf(attrs) # "complete"
    \/ Get(attrs, "home_score", Null) = Null
    \/ Get(attrs, "away_score", Null) = Null

\* lines 955-963
NeedsScore(attrs, match_date, day0) ==
    /\ match_date <= day0
    /\ \/ StatusOf(attrs) # "complete"
       \/ Get(attrs, "home_score", Null) = Null
       \/ Get(attrs, "away_score", Null) = Null

\* lines 830-839: the match has a date, and the date parses
Dated(attrs) == Get(attrs, "date", Null) # Null

\* lines 830-946: the match reaches the test of its scores
PassesFilters(a, md, day0, attrs) ==
    /\ Dated(attrs)
    /\ InWindow(a, md, day0, parse_date_utc_to_aest(attrs["date"]).date)
    /\ ~IsBye(attrs)
    /\ LeagueOk(a, attrs)
    /\ RoundOk(a, attrs)
    /\ QueryOk(a, attrs)

\* lines 966-980
MissingRow(attrs) ==
    LET match_dt == parse_date_utc_to_aest(attrs["date"])
    IN  [match_hash_id |-> Get(attrs, "match_hash_id", 0),
         date |-> match_dt.date, time |-> match_dt.hour,
         datetime_sort |-> match_dt.instant,
         league |-> extract_league_from_league_name(Get(attrs, "league_name", "")),
         home_team |-> Get(attrs, "home_team_name", "Unknown"),
         away_team |-> Get(attrs, "away_team_name", "Unknown"),
         round |-> Get(attrs, "full_round", Get(attrs, "round", "")),
         venue |-> Get(attrs, "ground_name", "TBD"),
         status |-> StatusOf(attrs),
         source |-> Get(attrs, "source", "unknown"),
         home_score |-> Get(attrs, "home_score", Null),
         away_score |-> Get(attrs, "away_score", Null)]

\* the list a call starts from if missing_scores outlived the call
StartList_kept(prev) == prev

\* line 763
StartList(prev) == <<>>

\* line 842: date_sample takes the first five matches that have a date
SampleSize == 5

\* lines 847-848: attrs.get("home_team_name", "")[:30] and the same of the
\* away team; the default is for an absent key, so a null name is None, and
\* None[:30] raises TypeError
SliceRaises(attrs) ==
    \/ Get(attrs, "home_team_name", "") = NoName
    \/ Get(attrs, "away_team_name", "") = NoName

\* lines 829-849: the place of the match at which the loop raises, 0 when it
\* runs to its end.  date_sample takes the matches that have a date, before
\* any filter, until it holds five
RaisedAt(all) ==
    LET sampled == { i \in DOMAIN all :
                        /\ Dated(all[i])
                        /\ Cardinality({ j \in 1..(i - 1) : Dated(all[j]) })
                               < SampleSize }
        bad == { i \in sampled : SliceRaises(all[i]) }
    IN  IF bad = {} THEN 0 ELSE CHOOSE i \in bad : \A j \in bad : i <= j

\* lines 829-980: the rows of the matches that need a score, in the order of
\* fixtures, of the matches the loop goes through before it ends or raises
Collect(a, md, day0, all) ==
    LET Hit(attrs) ==
            /\ PassesFilters(a, md, day0, attrs)
            /\ NeedsScore(attrs, parse_date_utc_to_aest(attrs["date"]).date, day0)
        looped == IF RaisedAt(all) = 0 THEN all
                  ELSE SubSeq(all, 1, RaisedAt(all) - 1)
        hits == SelectSeq(looped, Hit)
    IN  [i \in DOMAIN hits |-> MissingRow(hits[i])]

\* line 946: matches_after_query_filter
Checked(a, md, day0, all) ==
    Cardinality({ i \in DOMAIN all : PassesFilters(a, md, day0, all[i]) })

\* line 1013: the place of row i, the sort being stable
MissingRank(s, i) ==
    Cardinality({ j \in DOMAIN s :
                    \/ s[j].datetime_sort < s[i].datetime_sort
                    \/ s[j].datetime_sort = s[i].datetime_sort /\ j < i }) + 1

MissingSorted(s) ==
    [k \in DOMAIN s |-> s[CHOOSE i \in DOMAIN s : MissingRank(s, i) = k]]

\* lines 1003-1041: the text when nothing is missing, else the table
MissingReturn(a, md, day0, rows, checked) ==
    IF rows = <<>>
    THEN [type |-> "text", text |-> "All scores entered",
          day |-> md, leagues |-> target_leagues(a), filter |-> a.query,
          checked |-> checked]
    ELSE [type |-> "table",
          data |-> [i \in DOMAIN rows |->
                      [n |-> i, League |-> rows[i].league,
                       Home |-> rows[i].home_team, Away |-> rows[i].away_team,
                       Round |-> rows[i].round, Venue |-> rows[i].venue,
                       Date |-> IF a.today_only THEN NoDay ELSE rows[i].date,
                       Time |-> rows[i].time]],
          day |-> md, leagues |-> target_leagues(a), filter |-> a.query,
          count |-> Len(rows)]
NoOutput == [type |-> "none"]

\* tool_missing_scores(query, include_all_leagues, today_only, last_week,
\* round_filter): it returns, and the handler is at returned, or it raises
\* the TypeError of line 847 or 848, which process hands on
MissingScores(a, returned) ==
    /\ args' = a
    /\ called_at' = now
    /\ today' = LocalDate(now)
    /\ target_day' = MatchDay(a, now)
    /\ result_lookup' = ResultLookup(results)
    /\ all_matches' = AllMatches(fixtures, result_lookup')
    /\ fixtures' = FixturesAfter(fixtures, result_lookup')
    /\ \E unsorted \in {StartList(missing_scores)
                         \o Collect(a, target_day', today', all_matches')} :
           missing_scores' = IF RaisedAt(all_matches') # 0 THEN unsorted
                             ELSE MissingSorted(unsorted)
    /\ out' = IF RaisedAt(all_matches') # 0 THEN Raised("TypeError")
              ELSE MissingReturn(a, target_day', today', missing_scores',
                                 Checked(a, target_day', today', all_matches'))
    /\ mpc' = IF RaisedAt(all_matches') # 0 THEN "raised" ELSE returned
    /\ UNCHANGED <<now, results>>

\* the router calls the handler
CallMissingScores ==
    /\ mpc = "idle"
    /\ \E a \in MissingArgs : MissingScores(a, "done")

\* the same question is asked again
CallMissingScoresAgain ==
    /\ mpc = "done"
    /\ MissingScores(args, "again")

\* time passes between two questions
Later ==
    /\ mpc = "done"
    /\ \E h \in NowChoices : h > now /\ now' = h
    /\ UNCHANGED <<mpc, args, called_at, today, target_day, fixtures, results,
                   result_lookup, all_matches, missing_scores, out>>

\* snapshots and calls that try the date window of each mode: fixtures a
\* day either side of the first Sunday, calls on the second and third
\* Sunday at 13:00 and on the Monday after at 12:00, local, and every
\* combination of the three mode arguments
ThirdSunday == SecondSunday + 7 * 24
WindowNows == {13 * 24 + 3, 20 * 24 + 3, 21 * 24 + 2}

WindowFixtures(mid) ==
    { [match_hash_id |-> mid, date |-> sh[1], round |-> sh[2],
       league_name |-> "U16 Boys YPL1",
       home_team_name |-> "alpha", away_team_name |-> "Bravo",
       home_team_hash_id |-> "h1", away_team_hash_id |-> "h2",
       ground_name |-> "Olympic Park", status |-> "scheduled"] :
        sh \in { <<FirstSunday - 24, "Round 2">>, <<FirstSunday, "Round 1">>,
                 <<FirstSunday + 24, "Round 1">>, <<SecondSunday, "Round 2">>,
                 <<ThirdSunday, "Round 1">> } }

WindowResults ==
    { [match_hash_id |-> 1, status |-> "complete", home_score |-> 1, away_score |-> 0] }

WindowArgs ==
    { [query |-> "", include_all_leagues |-> FALSE,
       today_only |-> md[1], last_week |-> md[2], round_filter |-> md[3]] :
        md \in {<<FALSE, FALSE, Null>>, <<TRUE, FALSE, Null>>,
                <<FALSE, TRUE, Null>>, <<FALSE, FALSE, 2>>,
                <<TRUE, TRUE, Null>>, <<TRUE, FALSE, 2>>, <<FALSE, TRUE, 2>>} }

\* the router calls the handler with one of those arguments
CallMissingScoresWindow ==
    /\ mpc = "idle"
    /\ \E a \in WindowArgs : MissingScores(a, "done")

\* fixtures of every league the handler tells apart, played or still to come,
\* one of them a bye
FixtureLeagues ==
    {"U16 Boys YPL1", "U16 Boys YPL2", "U15 YSL Boys - North-West",
     "U15 YSL Boys - South-East", "U18 Boys VPL Men", "U15 Boys State League"}

LeagueFixtures(mid) ==
    { [match_hash_id |-> mid, date |-> sh[1], round |-> "Round 1",
       league_name |-> l,
       home_team_name |-> "alpha", away_team_name |-> "Bravo",
       home_team_hash_id |-> "h1", away_team_hash_id |-> sh[2],
       ground_name |-> "Olympic Park", status |-> "scheduled"] :
        sh \in { <<FirstSunday, "h2">>, <<FirstSunday, "">>,
                 <<ThirdSunday, "h2">> },
        l \in FixtureLeagues }

\* the result of the first match, and results of match 9, which no fixture
\* holds: one with no score yet, one complete with half a score
LeagueResults ==
    WindowResults \cup
    { [match_hash_id |-> 9, date |-> FirstSunday, round |-> "Round 1",
       league_name |-> "U16 Boys YPL1",
       home_team_name |-> "alpha", away_team_name |-> "Bravo",
       home_team_hash_id |-> "h1", away_team_hash_id |-> "h2",
       ground_name |-> "Reserve", status |-> "scheduled"],
      [match_hash_id |-> 9, date |-> FirstSunday, round |-> "Round 1",
       league_name |-> "U16 Boys YPL1",
       home_team_name |-> "alpha", away_team_name |-> "Bravo",
       home_team_hash_id |-> "h1", away_team_hash_id |-> "h2",
       ground_name |-> "Reserve", status |-> "complete",
       home_score |-> 1, away_score |-> Null] }

LeagueArgs ==
    { [query |-> "", include_all_leagues |-> all,
       today_only |-> FALSE, last_week |-> FALSE, round_filter |-> Null] :
        all \in BOOLEAN }

\* the router calls the handler with or without "all leagues"
CallMissingScoresLeagues ==
    /\ mpc = "idle"
    /\ \E a \in LeagueArgs : MissingScores(a, "done")

(***************************************************************************)
(* People (src/fast_agent.py): players_summary and staff_summary after     *)
(* _normalize_person, and the filter the listing handlers share.           *)
(***************************************************************************)
\* people as _normalize_person leaves them: role is never empty, and
\* team_name is the first of teams unless the record carried its own
PersonPool ==
    << [name |-> "Ann", role |-> "player",
        team_name |-> "Heidelberg United FC U16",
        teams |-> <<"Heidelberg United FC U16">>,
        leagues |-> <<"U16 Boys YPL1">>],
       [name |-> "Ben", role |-> "player",
        team_name |-> "Heidelberg United FC U15",
        teams |-> <<"Heidelberg United FC U15", "Heidelberg United FC U16">>,
        leagues |-> <<"U15 Boys State League", "U16 Boys YPL1">>],
       [name |-> "Cat", role |-> "player",
        team_name |-> "Brunswick Juventus FC U16",
        teams |-> << >>,
        leagues |-> <<"U16 Boys YPL1", "U15 Boys State League">>],
       [name |-> "Dan", role |-> "Coach",
        team_name |-> "Heidelberg United FC U15",
        teams |-> <<"Heidelberg United FC U15", "Brunswick Juventus FC U16">>,
        leagues |-> << >>],
       [name |-> "Eve", role |-> "Player",
        team_name |-> "", teams |-> << >>, leagues |-> << >>],
       [name |-> "Fay", role |-> "Team Manager",
        team_name |-> "Heidelberg United FC U16",
        teams |-> <<"Heidelberg United FC U16">>,
        leagues |-> <<"U16 Boys YPL1">>] >>

\* the people at the places S of the pool, in the order of the pool
PeopleOf(S) ==
    [k \in 1..Cardinality(S) |->
        PersonPool[CHOOSE i \in S : Cardinality({j \in S : j < i}) = k - 1]]

\* the texts a listing handler passes to the filter
FilterTexts ==
    {"heid u16", "top scorers heid u16", "heid", "u16", "zzz",
     "Heidelberg United FC U16", "united", "fc", "", "juve u15"}

\* re.sub of the keywords (top, scorers, yellow, card, staff, ...) and strip
RemoveKeywords(s) ==
    CASE s = "top scorers heid u16" -> "heid u16"
      [] OTHER -> s

\* re.sub(r'\s*u\d{2}\s*$', '', clean, flags=re.IGNORECASE).strip()
RemoveAgeSuffix(s) ==
    CASE s = "heid u16" -> "heid"
      [] s = "juve u15" -> "juve"
      [] s = "u16" -> ""
      [] s = "Heidelberg United FC U16" -> "Heidelberg United FC"
      [] OTHER -> s

\* re.match(r'^u\d{2}$', s)
IsAgeOnly(s) == s \in {"u15", "u16"}

\* re.sub(r'\s+U\d{2}$', '', team).strip(): a capital U only
BaseName(team) ==
    CASE team = "Heidelberg United FC U15" -> "Heidelberg United FC"
      [] team = "Heidelberg United FC U16" -> "Heidelberg United FC"
      [] team = "Brunswick Juventus FC U15" -> "Brunswick Juventus FC"
      [] team = "Brunswick Juventus FC U16" -> "Brunswick Juventus FC"
      [] OTHER -> team

\* extract_team_name: what it can return (lines 526-550)
extract_team_name(s, tn) ==
    LET clean == RemoveKeywords(s)
        same == {i \in DOMAIN tn : Lower(clean) = Lower(tn[i])}
    IN  IF IsAgeOnly(Lower(clean)) THEN {NoName}
        ELSE IF clean = "" THEN {NoName}
        ELSE IF same # {} THEN {tn[CHOOSE i \in same : \A j \in same : i <= j]}
        ELSE {IF normalized # NoName /\ \E i \in DOMAIN tn : tn[i] = normalized
                  THEN normalized ELSE NoName :
              normalized \in normalize_team(clean, tn)}

\* extract_base_club_name: what it can return (lines 552-599)
extract_base_club_name(s, tn) ==
    LET clean == RemoveAgeSuffix(RemoveKeywords(s))
        canonical == get_canonical_club_name(clean)
        clean_lower == Lower(clean)
        matching_teams == {i \in DOMAIN tn : Contains(clean_lower, Lower(tn[i]))}
        base_names == {BaseName(tn[i]) : i \in matching_teams}
        third == {IF normalized # NoName THEN BaseName(normalized) ELSE NoName :
                  normalized \in normalize_team(clean, tn)}
    IN  IF clean = "" THEN {NoName}
        ELSE IF canonical # NoName THEN {canonical}
        ELSE IF Cardinality(base_names) = 1 THEN base_names
        ELSE IF Cardinality(base_names) > 1
             THEN base_names \cup third  \* fuzzy_find chose a base, or None
        ELSE third

\* _person_teams (lines 601-607)
person_teams(p) ==
    IF p.teams # << >> THEN p.teams
    ELSE IF p.team_name # "" THEN <<p.team_name>>
    ELSE << >>

\* _team_match with the check  needle.lower() in (t or "").lower()
team_match(p, needle) ==
    \E k \in DOMAIN person_teams(p) :
        Contains(Lower(needle), Lower(person_teams(p)[k]))

\* lines 628-639: the filter by role
RoleKept(p, include_non_players) ==
    IF include_non_players
    THEN p.role # "" /\ Lower(p.role) # "player"
    ELSE p.role = "" \/ Lower(p.role) = "player"

\* lines 648-656, combined: the club and the age group are both applied
TeamKept_combined(p, e) ==
    /\ e.team_name # NoName => team_match(p, e.team_name)
    /\ e.base_club # NoName => team_match(p, e.base_club)
    /\ e.age_group # NoAge => team_match(p, e.age_group)

\* lines 648-656: the chain of if and elif
TeamKept(p, e) ==
    IF e.team_name # NoName THEN team_match(p, e.team_name)
    ELSE IF e.base_club # NoName /\ e.age_group # NoAge
         THEN team_match(p, Composite(e.base_club, e.age_group))
    ELSE IF e.base_club # NoName THEN team_match(p, e.base_club)
    ELSE IF e.age_group # NoAge THEN team_match(p, e.age_group)
    ELSE TRUE

\* filter_players_by_criteria after the three extractions
filter_players_by_criteria(players, e, include_non_players) ==
    LET Role(p) == RoleKept(p, include_non_players)
        Team(p) == TeamKept(p, e)
    IN  SelectSeq(SelectSeq(players, Role), Team)

NoCriteria == [age_group |-> NoAge, team_name |-> NoName, base_club |-> NoName]
NoFilterArgs == [query |-> "", include_non_players |-> FALSE]

\* a listing handler filters the people it was given
CallFilterPlayers ==
    /\ \E q \in FilterTexts, inp \in BOOLEAN :
         \E tm \in extract_team_name(q, team_names),
            bc \in extract_base_club_name(q, team_names) :
           \E e \in {[age_group |-> extract_age_group(q),
                      team_name |-> tm, base_club |-> bc]} :
               /\ fargs' = [query |-> q, include_non_players |-> inp]
               /\ extracted' = e
               /\ filtered' = filter_players_by_criteria(people, e, inp)
    /\ fpc' = "done"
    /\ UNCHANGED <<people, dpc, dquery, dfilters, dout,
                   players_summary, staff_summary, bcall, listed, board,
                   raw_person, npc, person>>

(***************************************************************************)
(* tool_dual_registration (src/fast_agent.py) over players_summary, which  *)
(* is people here.  name stands for f"{first_name} {last_name}".           *)
(***************************************************************************)
\* the filter texts the router passes to tool_dual_registration
DualTexts == {"", "heid", "u16", "ypl1", "heid u16", "zzz"}

\* lines 2581-2585: the league code of the text in capitals, NoName for None
league_code_filter(q) ==
    IF q = "" THEN NoName
    ELSE IF Contains("ypl1", Lower(q)) THEN "YPL1"
    ELSE IF Contains("ypl2", Lower(q)) THEN "YPL2"
    ELSE IF Contains("ysl nw", Lower(q)) THEN "YSL NW"
    ELSE IF Contains("ysl se", Lower(q)) THEN "YSL SE"
    ELSE IF Contains("vpl men", Lower(q)) THEN "VPL MEN"
    ELSE IF Contains("vpl women", Lower(q)) THEN "VPL WOMEN"
    ELSE NoName

\* lines 2579-2580: the filters of a text; the club can be one of several
DualFilters(q, tn) ==
    {[age_group |-> IF q = "" THEN NoAge ELSE extract_age_group(q),
      base_club |-> bc,
      league_code |-> league_code_filter(q)] :
     bc \in IF q = "" THEN {NoName} ELSE extract_base_club_name(q, tn)}

NoDualFilters == [age_group |-> NoAge, base_club |-> NoName, league_code |-> NoName]

\* any(needle.lower() in (t or "").lower() for t in teams)
AnyTeamHolds(p, needle) ==
    \E k \in DOMAIN p.teams : Contains(Lower(needle), Lower(p.teams[k]))

\* lines 2589-2594, teams only: the legacy test of the leagues is left out
HasTwo_teams_only(p) == Len(p.teams) >= 2

\* lines 2589-2594: two teams, or two leagues
HasTwo(p) == Len(p.teams) >= 2 \/ Len(p.leagues) >= 2

\* lines 2589-2612: whether the loop appends the player
DualSelects(p, f) ==
    /\ HasTwo(p)
    /\ f.age_group # NoAge => AnyTeamHolds(p, f.age_group)
    /\ f.base_club # NoName => AnyTeamHolds(p, f.base_club)
    /\ f.league_code # NoName =>
           \E k \in DOMAIN p.leagues :
               Contains(Lower(f.league_code),
                        Lower(extract_league_from_league_name(p.leagues[k])))

\* the place of a name in the order of Python strings
NameRank(n) == CHOOSE i \in DOMAIN PersonPool : PersonPool[i].name = n

\* line 2619: list.sort by name, which is stable
SortedByName(s) ==
    LET Rank(i) == Cardinality({j \in DOMAIN s :
                       \/ NameRank(s[j].name) < NameRank(s[i].name)
                       \/ NameRank(s[j].name) = NameRank(s[i].name) /\ j < i}) + 1
    IN  [k \in DOMAIN s |-> s[CHOOSE i \in DOMAIN s : Rank(i) = k]]

\* lines 2621-2640: the row of a player
DualRow(p, i) ==
    [n |-> i, Player |-> p.name, Teams |-> p.teams, Leagues |->
        [k \in DOMAIN p.leagues |-> extract_league_from_league_name(p.leagues[k])]]

\* tool_dual_registration after the extractions
tool_dual_registration(players, f) ==
    LET Sel(p) == DualSelects(p, f)
        dual_players == SortedByName(SelectSeq(players, Sel))
    IN  IF dual_players = << >> THEN [type |-> "text", data |-> << >>]
        ELSE [type |-> "table",
              data |-> [i \in DOMAIN dual_players |-> DualRow(dual_players[i], i)]]

NoDualOutput == [type |-> "none", data |-> << >>]

\* the router calls tool_dual_registration
CallDualRegistration ==
    /\ \E q \in DualTexts :
         \E f \in DualFilters(q, team_names) :
             /\ dquery' = q
             /\ dfilters' = f
             /\ dout' = tool_dual_registration(people, f)
    /\ dpc' = "done"
    /\ UNCHANGED <<fpc, people, fargs, extracted, filtered,
                   players_summary, staff_summary, bcall, listed, board,
                   raw_person, npc, person>>

(***************************************************************************)
(* FastQueryRouter.process (src/fast_agent.py): which handler a query is   *)
(* handed to, and with which arguments.                                    *)
(***************************************************************************)
\* the queries that reach the router
RouterQueries ==
    {"dual registration heid",
     "missing scores today",
     "missing scores round 2",
     "dual reg missing scores",
     "today results",
     "missing today results",
     "missing today",
     "top scorers today",
     "who lost today",
     "ypl1 overview",
     "ypl1 ladder",
     "ypl1 standings",
     "next match heid",
     "my next match",
     "Coach yellow cards",
     "yellow cards heid u16",
     "red cards details",
     "coaches heid",
     "top scorers heid u16",
     "top scorers",
     "stats for heid u16",
     "stats for zzz",
     "ladder u16",
     "lineup heid",
     "heid vs juve",
     "form heid",
     "heid",
     "zzz",
     "fixtures yellow cards",
     "staff top scorers",
     "yellow card red card",
     "missing scores last week all leagues",
     "Heid U16",
     "ypl1", "ypl2", "ysl nw", "ysl se", "vpl"}

\* re.sub of the stop words of a rule, and strip (lines 2683-2792)
RouterClean(rule, q) ==
    CASE rule = "dual" /\ q = "dual reg missing scores" -> "missing scores"
      [] rule = "dual" /\ q = "dual registration heid" -> "heid"
      [] rule = "fixtures" /\ q = "fixtures yellow cards" -> "yellow cards"
      [] rule = "fixtures" /\ q = "next match heid" -> "heid"
      [] rule = "lost_today" /\ q = "who lost today" -> ""
      [] rule = "missing" /\ q = "missing scores last week all leagues" -> "all leagues"
      [] rule = "missing" /\ q = "missing scores round 2" -> ""
      [] rule = "missing" /\ q = "missing scores today" -> ""
      [] rule = "missing_today" /\ q = "missing today" -> ""
      [] rule = "red" /\ q = "red cards details" -> ""
      [] rule = "scorers" /\ q = "top scorers" -> ""
      [] rule = "scorers" /\ q = "top scorers heid u16" -> "heid u16"
      [] rule = "scorers_today" /\ q = "top scorers today" -> ""
      [] rule = "staff" /\ q = "coaches heid" -> "heid"
      [] rule = "staff" /\ q = "staff top scorers" -> "top scorers"
      [] rule = "stats" /\ q = "stats for heid u16" -> "heid u16"
      [] rule = "stats" /\ q = "stats for zzz" -> "zzz"
      [] rule = "todays_results" /\ q = "missing today results" -> "missing"
      [] rule = "todays_results" /\ q = "today results" -> ""
      [] rule = "yellow" /\ q = "coach yellow cards" -> "coach"
      [] rule = "yellow" /\ q = "yellow card red card" -> "red"
      [] rule = "yellow" /\ q = "yellow cards heid u16" -> "heid u16"
      [] OTHER -> q

\* line 2696: re.search(r'\bround\s*(\d+)\b', q), Null for None
RouterRound(q) ==
    CASE q = "missing scores round 2" -> 2
      [] OTHER -> Null

\* any(keyword in q for keyword in kws)
AnyIn(kws, q) == \E k \in kws : Contains(k, q)

\* line 2672
non_player_keywords ==
    {"non player", "non-player", "coach", "coaches", "staff", "manager"}
\* line 2673
personal_keywords ==
    {"my next", "when do i play", "where do i play", "my schedule",
     "when is my", "where is my", "our next"}
\* lines 2676-2681
dual_keywords ==
    {"dual registration", "dual reg", "playing for 2", "playing for two",
     "2 clubs", "2 teams", "two clubs", "two teams", "multi-team",
     "multiple teams", "multiple clubs", "playing in 2", "registered in 2",
     "two leagues", "2 leagues", "both teams", "in 2 age groups"}
\* line 2690
missing_keywords ==
    {"missing score", "missing scores", "no score", "scores not entered",
     "overdue", "matches without scores", "todays missing",
     "missing scores today"}
\* lines 2716-2723
todays_results_keywords ==
    {"today results", "todays results", "results today", "results for today",
     "today s results"}
\* line 2731
top_scorers_today_keywords ==
    {"top scorers today", "goals today", "who scored today", "scorers today",
     "today's scorers", "today's goals"}
\* line 2737
teams_lost_keywords ==
    {"teams that lost today", "who lost today", "losses today",
     "teams lost today", "today's losses"}
\* line 2743
missing_today_keywords ==
    {"missing scores today", "missing today", "scores not entered today",
     "todays missing scores"}
\* line 2749
comp_overview_keywords ==
    {"competition overview", "competition standings", "ypl1 overview",
     "ypl2 overview", "ysl overview", "vpl overview", "club rankings",
     "overall standings"}
\* line 2750
competition_codes == {"ypl1", "ypl2", "ysl nw", "ysl se", "vpl"}
\* line 2751
overview_words == {"overview", "standings", "ranking", "competition"}
\* line 2755
fixture_keywords ==
    {"next match", "next game", "upcoming", "when do i play",
     "where do i play", "my next", "schedule", "fixture", "fixtures",
     "when is my", "where is my", "our next"}
\* line 2782
top_scorer_keywords ==
    {"top scorer", "leading scorer", "top scorers", "golden boot"}
\* line 2791
stats_keywords == {"stats for", "team stats", "show me", "details for"}
\* line 2807
ladder_keywords == {"ladder", "table", "standings"}

\* lines 28-32: USER_CONFIG as the module-level statement binds it, at import
\* and in every reload of the module
USER_CONFIG_at_import ==
    [team |-> "Heidelberg United FC U16", club |-> "Heidelberg United FC",
     age_group |-> "U16"]

\* lines 662 and 1726: the limit a handler takes when its caller passes
\* none; 0 for a handler that has no limit
DefaultLimit(h) ==
    CASE h = "tool_fixtures" -> 10
      [] h = "tool_top_scorers" -> 20
      [] OTHER -> 0

\* a call of a handler: its name, its text argument and its options, each
\* option at the default of the handler unless the router passes it
Route(h, t) ==
    [handler |-> h, text |-> t, include_all_leagues |-> FALSE,
     today_only |-> FALSE, last_week |-> FALSE, round_filter |-> Null,
     show_details |-> FALSE, include_non_players |-> FALSE,
     limit |-> DefaultLimit(h), use_user_team |-> FALSE]

NoRoute == Route("none", "")

\* FastQueryRouter.process: the calls it can make for a query (lines
\* 2657-2821); normalize_team can answer in several ways, and line 2784
\* reads USER_CONFIG["team"]
process(raw, tn) ==
    LET q == Lower(raw)
        is_non_player_query == AnyIn(non_player_keywords, q)
        is_personal_query == AnyIn(personal_keywords, q)
        show_details == Contains("detail", q)
    IN  IF AnyIn(dual_keywords, q)
        THEN {Route("tool_dual_registration", RouterClean("dual", q))}
        ELSE IF AnyIn(missing_keywords, q)
        THEN {[Route("tool_missing_scores", RouterClean("missing", q)) EXCEPT
                  !.include_all_leagues =
                      Contains("all leagues", q) \/ Contains("all league", q),
                  !.today_only =
                      \/ Contains("today", q) \/ Contains("todays", q)
                      \/ Contains("today's", q),
                  !.last_week =
                      Contains("last week", q) \/ Contains("previous week", q),
                  !.round_filter = RouterRound(q)]}
        ELSE IF AnyIn(todays_results_keywords, q)
        THEN {Route("tool_todays_results", RouterClean("todays_results", q))}
        ELSE IF AnyIn(top_scorers_today_keywords, q)
        THEN {Route("tool_top_scorers_today", RouterClean("scorers_today", q))}
        ELSE IF AnyIn(teams_lost_keywords, q)
        THEN {Route("tool_teams_lost_today", RouterClean("lost_today", q))}
        ELSE IF AnyIn(missing_today_keywords, q)
        THEN {[Route("tool_missing_scores", RouterClean("missing_today", q))
                  EXCEPT !.today_only = TRUE]}
        ELSE IF /\ AnyIn(comp_overview_keywords, q) \/ AnyIn(competition_codes, q)
                /\ AnyIn(overview_words, q)
        THEN {Route("tool_competition_overview", raw)}
        ELSE IF AnyIn(fixture_keywords, q)
        THEN IF is_personal_query
             THEN {[Route("tool_fixtures", "") EXCEPT
                       !.limit = 5, !.use_user_team = TRUE]}
             ELSE {[Route("tool_fixtures", RouterClean("fixtures", q)) EXCEPT
                       !.limit = IF RouterClean("fixtures", q) # "" THEN 5 ELSE 10]}
        ELSE IF Contains("yellow card", q) \/ Contains("yellows", q)
        THEN {[Route("tool_yellow_cards", RouterClean("yellow", q)) EXCEPT
                  !.show_details = show_details,
                  !.include_non_players = is_non_player_query]}
        ELSE IF Contains("red card", q) \/ Contains("reds", q)
        THEN {[Route("tool_red_cards", RouterClean("red", q)) EXCEPT
                  !.show_details = show_details,
                  !.include_non_players = is_non_player_query]}
        ELSE IF is_non_player_query
        THEN {Route("tool_non_players", RouterClean("staff", q))}
        ELSE IF AnyIn(top_scorer_keywords, q)
        THEN {Route("tool_top_scorers",
                    IF RouterClean("scorers", q) # ""
                    THEN RouterClean("scorers", q) ELSE USER_CONFIG.team)}
        ELSE IF AnyIn(stats_keywords, q)
        THEN {IF recognized_team # NoName
              THEN Route("tool_team_stats", recognized_team)
              ELSE [Route("tool_players", RouterClean("stats", q)) EXCEPT
                       !.show_details = show_details] :
              recognized_team \in normalize_team(RouterClean("stats", q), tn)}
        ELSE IF AnyIn(ladder_keywords, q)
        THEN {Route("tool_ladder", raw)}
        ELSE IF Contains("lineup", q) \/ Contains("starting", q)
        THEN {Route("tool_lineups", raw)}
        ELSE IF Contains(" vs ", q) \/ Contains(" v ", q)
        THEN {Route("tool_match_centre", raw)}
        ELSE IF Contains("form", q)
        THEN {Route("tool_form", IF team # NoName THEN team ELSE raw) :
              team \in normalize_team(raw, tn)}
        ELSE {IF team # NoName THEN Route("tool_form", team)
              ELSE Route("tool_matches", raw) :
              team \in normalize_team(raw, tn)}

\* a query reaches the router
CallProcess ==
    /\ \E q \in RouterQueries :
           /\ asked' = q
           /\ routed' \in process(q, team_names)
    /\ spc' = "done"
    /\ UNCHANGED USER_CONFIG

(***************************************************************************)
(* The handlers that read results and fixtures record by record            *)
(* (src/fast_agent.py): tool_form, tool_matches, tool_todays_results.      *)
(* A handler returns a value or raises; the rows of tool_todays_results    *)
(* carry the hash id of their match, which the code's rows do not.         *)
(***************************************************************************)
\* the results master_results.json can hold for two matches: the first as
\* entered, with a null team name, with a null score; the second as entered
DayResults ==
    LET first == [match_hash_id |-> 1, date |-> FirstSunday, round |-> "Round 1",
                  league_name |-> "U16 Boys YPL1",
                  home_team_name |-> "Heidelberg United FC U16",
                  away_team_name |-> "Brunswick Juventus FC U16",
                  home_team_hash_id |-> "h1", away_team_hash_id |-> "h2",
                  home_score |-> 1, away_score |-> 0, status |-> "complete"]
    IN  { first,
          [first EXCEPT !.home_team_name = NoName],
          [first EXCEPT !.away_team_name = NoName],
          [first EXCEPT !.home_score = Null],
          [first EXCEPT !.match_hash_id = 2, !.date = SecondSunday,
                        !.round = "Round 2",
                        !.home_team_name = "Brunswick Juventus FC U16",
                        !.away_team_name = "Heidelberg United FC U16",
                        !.home_score = 0, !.away_score = 2] }

\* the fixtures master_fixtures.json can hold for the first match: still
\* scheduled, or played and carrying its score
DayFixtures ==
    { [match_hash_id |-> 1, date |-> FirstSunday, round |-> "Round 1",
       league_name |-> "U16 Boys YPL1",
       home_team_name |-> "Heidelberg United FC U16",
       away_team_name |-> "Brunswick Juventus FC U16",
       home_team_hash_id |-> "h1", away_team_hash_id |-> "h2",
       status |-> "scheduled"],
      [match_hash_id |-> 1, date |-> FirstSunday, round |-> "Round 1",
       league_name |-> "U16 Boys YPL1",
       home_team_name |-> "Heidelberg United FC U16",
       away_team_name |-> "Brunswick Juventus FC U16",
       home_team_hash_id |-> "h1", away_team_hash_id |-> "h2",
       home_score |-> 1, away_score |-> 0, status |-> "complete"] }

\* the texts the router passes to these handlers
HandlerTexts == {"", "heid u16", "zzz"}

NoReturn == [type |-> "none", data |-> << >>]
NoCall == [handler |-> "none", text |-> ""]

\* the places of the records whose team name .lower() is called on while null;
\* the away name is read only if the home name does not hold the team
FormRaisesAt(team, rs) ==
    { i \in DOMAIN rs :
        LET home == Get(rs[i], "home_team_name", "")
            away == Get(rs[i], "away_team_name", "")
        IN  \/ home = NoName
            \/ ~Contains(Lower(team), Lower(home)) /\ away = NoName }

\* lines 2382-2388: the records of the team
FormSelects(team, a) ==
    \/ Contains(Lower(team), Lower(Get(a, "home_team_name", "")))
    \/ Contains(Lower(team), Lower(Get(a, "away_team_name", "")))

\* line 2390: sort by date, latest first; the sort is stable
SortedByDateDesc(s) ==
    LET Rank(i) == Cardinality({j \in DOMAIN s :
                       \/ s[j].date > s[i].date
                       \/ s[j].date = s[i].date /\ j < i}) + 1
    IN  [k \in DOMAIN s |-> s[CHOOSE i \in DOMAIN s : Rank(i) = k]]

\* matches[:n]
FirstN(s, n) == [k \in 1..(IF Len(s) < n THEN Len(s) ELSE n) |-> s[k]]

\* lines 2399-2403: int() of a null score raises TypeError, which is caught
FormScored(mt) ==
    /\ Get(mt, "home_score", 0) # Null
    /\ Get(mt, "away_score", 0) # Null

\* lines 2405-2424: the row of a match
FormRow(team, mt) ==
    LET hs == Get(mt, "home_score", 0)
        as == Get(mt, "away_score", 0)
        home == Get(mt, "home_team_name", "")
        away == Get(mt, "away_team_name", "")
        mine == IF Contains(Lower(team), Lower(home)) THEN hs ELSE as
        theirs == IF Contains(Lower(team), Lower(home)) THEN as ELSE hs
    IN  [Date |-> mt.date,
         Result |-> IF mine > theirs THEN "W" ELSE IF mine < theirs THEN "L" ELSE "D",
         home |-> home, hs |-> hs, as |-> as, away |-> away]

\* ' '.join(form)
RECURSIVE JoinSpace(_)
JoinSpace(letters) ==
    IF letters = << >> THEN ""
    ELSE IF Len(letters) = 1 THEN letters[1]
    ELSE letters[1] \o " " \o JoinSpace(Tail(letters))

\* line 2429: the title, without the pictograph that opens it
FormTitle(team, rows) ==
    "Recent Form: " \o team \o " - "
        \o JoinSpace([k \in DOMAIN rows |-> rows[k].Result])

\* tool_form for the team normalize_team(query) or query (lines 2378-2431)
tool_form(team, rs) ==
    IF FormRaisesAt(team, rs) # {} THEN Raised("AttributeError")
    ELSE LET Sel(a) == FormSelects(team, a)
             matches == FirstN(SortedByDateDesc(SelectSeq(rs, Sel)), 5)
             scored == SelectSeq(matches, FormScored)
             rows == [k \in DOMAIN scored |-> FormRow(team, scored[k])]
         IN  IF matches = << >> THEN [type |-> "text", data |-> << >>]
             ELSE [type |-> "table", data |-> rows, title |-> FormTitle(team, rows)]

\* the results of a season of one team: at the place i of results a match of
\* its own round, won at home, lost or drawn away, without a score, or of
\* two other teams
FormResultAt(i, kind) ==
    LET base == [match_hash_id |-> i, date |-> FirstSunday + 168 * ((i * 3) % 7),
                 round |-> "Round 1", league_name |-> "U16 Boys YPL1",
                 home_team_name |-> "Heidelberg United FC U16",
                 away_team_name |-> "Brunswick Juventus FC U16",
                 home_team_hash_id |-> "h1", away_team_hash_id |-> "h2",
                 home_score |-> 2, away_score |-> 1, status |-> "complete"]
        away == [base EXCEPT !.home_team_name = "Brunswick Juventus FC U16",
                             !.away_team_name = "Heidelberg United FC U16"]
    IN  CASE kind = "won" -> base
          [] kind = "lost" -> away
          [] kind = "drawn" -> [away EXCEPT !.home_score = 1]
          [] kind = "no score" -> [base EXCEPT !.home_score = Null, !.away_score = Null]
          [] OTHER -> [base EXCEPT !.home_team_name = "Heidelberg United FC U15",
                                   !.away_team_name = "Brunswick Juventus FC U15"]
FormKinds == {"won", "lost", "drawn", "no score", "others"}

\* tool_form can run with each answer of normalize_team
FormTeams(q, tn) ==
    {IF n # NoName THEN n ELSE q : n \in normalize_team(q, tn)}

\* lines 2177-2178: norm_team.lower() not in (home.lower() + away.lower())
MatchesRaisesAt(norm_team, rs) ==
    { i \in DOMAIN rs :
        /\ norm_team # NoName
        /\ \/ Get(rs[i], "home_team_name", "") = NoName
           \/ Get(rs[i], "away_team_name", "") = NoName }

MatchesSelects(norm_team, a) ==
    norm_team # NoName =>
        \/ Contains(Lower(norm_team), Lower(Get(a, "home_team_name", "")))
        \/ Contains(Lower(norm_team), Lower(Get(a, "away_team_name", "")))

\* lines 2180-2181 and 2189-2190: a line of the listing
MatchesLine(kind, a) ==
    [kind |-> kind, date |-> Get(a, "date", ""),
     home |-> Get(a, "home_team_name", ""), away |-> Get(a, "away_team_name", ""),
     hs |-> IF kind = "result" THEN Get(a, "home_score", Null) ELSE Null,
     as |-> IF kind = "result" THEN Get(a, "away_score", Null) ELSE Null]

\* tool_matches after normalize_team (lines 2169-2195)
tool_matches(norm_team, rs, fxs) ==
    IF MatchesRaisesAt(norm_team, rs) # {} \/ MatchesRaisesAt(norm_team, fxs) # {}
    THEN Raised("AttributeError")
    ELSE LET Sel(a) == MatchesSelects(norm_team, a)
             played == SelectSeq(rs, Sel)
             coming == SelectSeq(fxs, Sel)
             lines == [k \in DOMAIN played |-> MatchesLine("result", played[k])]
                      \o [k \in DOMAIN coming |-> MatchesLine("fixture", coming[k])]
         IN  IF lines = << >> THEN [type |-> "text", data |-> << >>]
             ELSE [type |-> "text", data |-> FirstN(lines, 20)]

\* lines 1086-1096: attrs['source'] = ... on the attributes of the snapshot
WithSource(s, src) ==
    [i \in DOMAIN s |->
        [k \in DOMAIN s[i] \cup {"source"} |->
            IF k = "source" THEN src ELSE s[i][k]]]

\* lines 1131-1165: the filter by the query
TodaysQueryOk(q, attrs) ==
    q # "" =>
        LET q_lower == Lower(q)
            league == Get(attrs, "league_name", "")
            match_league_code == extract_league_from_league_name(league)
            search_blob == { Lower(Shown(Get(attrs, "home_team_name", "Unknown"))),
                             Lower(Shown(Get(attrs, "away_team_name", "Unknown"))),
                             Lower(league), Lower(match_league_code) }
            InBlob(sub) == \E part \in search_blob : Contains(sub, part)
            age_group == extract_age_group(q_lower)
            canonical_club == get_canonical_club_name(q_lower)
            code == query_league_code(q_lower)
        IN  /\ ~(code # NoName /\ Lower(match_league_code) # Lower(code))
            /\ ~(age_group # NoAge /\ ~InBlob(Lower(age_group)))
            /\ ~(canonical_club # NoName /\ ~InBlob(Lower(canonical_club)))
            /\ ~(/\ age_group = NoAge /\ canonical_club = NoName /\ code = NoName
                 /\ ~InBlob(q_lower))

\* lines 1102-1184: whether a record becomes one of todays_results
TodaysSelects(q, md, attrs) ==
    /\ Get(attrs, "date", Null) # Null
    /\ parse_date_utc_to_aest(attrs["date"]).date = md
    /\ ~Falsy(Get(attrs, "home_team_hash_id", NoName))
    /\ ~Falsy(Get(attrs, "away_team_hash_id", NoName))
    /\ TodaysQueryOk(q, attrs)
    /\ Lower(IF Falsy(Get(attrs, "status", NoName)) THEN "" ELSE attrs["status"])
           = "complete"
    /\ Get(attrs, "home_score", Null) # Null
    /\ Get(attrs, "away_score", Null) # Null

\* line 1195: sort by the instant of the match; the sort is stable
SortedByInstant(s) ==
    LET Rank(i) == Cardinality({j \in DOMAIN s :
                       \/ s[j].date < s[i].date
                       \/ s[j].date = s[i].date /\ j < i}) + 1
    IN  [k \in DOMAIN s |-> s[CHOOSE i \in DOMAIN s : Rank(i) = k]]

\* lines 1173-1183 and 1199-1209: the row of a match
TodaysRow(attrs, i) ==
    [n |-> i, match_hash_id |-> Get(attrs, "match_hash_id", 0),
     Time |-> parse_date_utc_to_aest(attrs["date"]).hour,
     League |-> extract_league_from_league_name(Get(attrs, "league_name", "")),
     Home |-> Get(attrs, "home_team_name", "Unknown"),
     hs |-> attrs["home_score"], as |-> attrs["away_score"],
     Away |-> Get(attrs, "away_team_name", "Unknown"),
     Round |-> Get(attrs, "full_round", Get(attrs, "round", ""))]

\* tool_todays_results over the marked attributes (lines 1043-1214)
tool_todays_results(q, h, all) ==
    LET md == get_match_day_date(h)
        Sel(attrs) == TodaysSelects(q, md, attrs)
        todays_results == SortedByInstant(SelectSeq(all, Sel))
    IN  IF todays_results = << >> THEN [type |-> "text", data |-> << >>]
        ELSE [type |-> "table",
              data |-> [i \in DOMAIN todays_results |->
                           TodaysRow(todays_results[i], i)]]

\* the router calls tool_form
CallToolForm ==
    /\ \E q \in HandlerTexts \ {""} :
         \E team \in FormTeams(q, team_names) :
           /\ hcall' = [handler |-> "tool_form", text |-> q]
           /\ ret' = tool_form(team, results)
    /\ hpc' = "done"
    /\ UNCHANGED <<now, fixtures, results>>

\* the router calls tool_matches
CallToolMatches ==
    /\ \E q \in HandlerTexts :
         \E norm_team \in normalize_team(Lower(q), team_names) :
           /\ hcall' = [handler |-> "tool_matches", text |-> q]
           /\ ret' = tool_matches(norm_team, results, fixtures)
    /\ hpc' = "done"
    /\ UNCHANGED <<now, fixtures, results>>

\* the texts of tool_todays_results: those, one that names the league of
\* the records and one that names another league
TodaysTexts == HandlerTexts \cup {"ypl1 ladder", "ypl2"}

\* the router calls tool_todays_results
CallToolTodaysResults ==
    /\ \E q \in TodaysTexts :
           /\ hcall' = [handler |-> "tool_todays_results", text |-> q]
           /\ fixtures' = WithSource(fixtures, "fixtures")
           /\ results' = WithSource(results, "results")
           /\ ret' = tool_todays_results(q, now, fixtures' \o results')
    /\ hpc' = "done"
    /\ UNCHANGED now

(***************************************************************************)
(* The competition of a query: tool_competition_overview and the head of   *)
(* tool_ladder (src/fast_agent.py).                                        *)
(***************************************************************************)
\* the competitions competition_overview.json can hold, in sorted order
KnownCompetitions == <<"YPL1", "YPL2", "YSL NW">>

\* competition_overview[comp] of a snapshot: its clubs by rank and its age groups
OverviewOf(comp) ==
    [clubs |-> << [overall_rank |-> 1, club |-> "Heidelberg United FC",
                   age_group_count |-> 2],
                  [overall_rank |-> 2, club |-> "Brunswick Juventus FC",
                   age_group_count |-> 1] >>,
     age_groups |-> IF comp = "YPL1" THEN <<"U15", "U16">> ELSE <<"U16">>]

\* the league names and the competition names of the people of a snapshot
LeagueNameLists ==
    { << >>, <<"U16 Boys YPL1">>, <<"U15 Boys State League", "U16 Boys YPL1">> }
CompetitionNameLists == { << >>, <<"YPL1">> }

\* the texts the router passes to tool_competition_overview
OverviewTexts ==
    {"ypl1 overview", "ypl1 standings", "ypl2 overview", "ysl nw standings",
     "vpl men overview", "competition overview", "competition overview ypl3"}
\* the texts the router passes to tool_ladder
LadderTexts == {"ypl1 ladder", "ladder u16", "ypl3 ladder"}

\* lines 1912-1923: comp_mapping, in the order of the dict
comp_mapping ==
    << <<"YPL1", "YPL1">>, <<"YPL 1", "YPL1">>, <<"YPL2", "YPL2">>,
       <<"YPL 2", "YPL2">>, <<"YSL NW", "YSL NW">>,
       <<"YSL NORTH WEST", "YSL NW">>, <<"YSL SE", "YSL SE">>,
       <<"YSL SOUTH EAST", "YSL SE">>, <<"VPL MEN", "VPL Men">>,
       <<"VPL WOMEN", "VPL Women">> >>

\* lines 1910 and 1925-1929: q = query.upper().strip(), and the value of the
\* first entry whose key or value q holds, NoName for None; the texts have
\* no blank at either end
competition_key(query_text) ==
    LET q == Upper(query_text)
        hits == {i \in DOMAIN comp_mapping :
                    \/ Contains(comp_mapping[i][1], q)
                    \/ Contains(comp_mapping[i][2], q)}
    IN  IF hits = {} THEN NoName
        ELSE comp_mapping[CHOOSE i \in hits : \A j \in hits : i <= j][2]

\* lines 1932-1938: a line for each competition of the snapshot, sorted
AvailableCompetitions(co) ==
    LET keys == {i \in DOMAIN KnownCompetitions : KnownCompetitions[i] \in DOMAIN co}
        Nth(k) == CHOOSE i \in keys : Cardinality({j \in keys : j < i}) = k - 1
    IN  [k \in 1..Cardinality(keys) |->
            LET comp == KnownCompetitions[Nth(k)]
            IN  [comp |-> comp, club_count |-> Len(co[comp].clubs),
                 age_groups |-> co[comp].age_groups]]

\* lines 1944-1962: the row of a club
OverviewRow(club_data) ==
    [Rank |-> club_data.overall_rank, Club |-> club_data.club,
     Teams |-> club_data.age_group_count]

\* tool_competition_overview (lines 1908-1968)
tool_competition_overview(q, co) ==
    LET key == competition_key(q)
    IN  IF key = NoName \/ key \notin DOMAIN co
        THEN [type |-> "competitions", competition |-> NoName,
              data |-> AvailableCompetitions(co)]
        ELSE [type |-> "table", competition |-> key,
              data |-> [i \in DOMAIN co[key].clubs |-> OverviewRow(co[key].clubs[i])]]

\* [l.lower() for l in league_names]
Lowered(names) == [i \in DOMAIN names |-> Lower(names[i])]

\* lines 2272-2283: competition_to_use, with each answer of fuzzy_find
competition_to_use(q, ln, cn) ==
    LET direct == extract_league_from_league_name(Lower(q))
    IN  IF direct # "Other" THEN {direct}
        ELSE { IF league # NoName THEN extract_league_from_league_name(league)
               ELSE IF comp # NoName THEN extract_league_from_league_name(comp)
               ELSE direct :
                   league \in fuzzy_find(Lower(q), Lowered(ln)),
                   comp \in fuzzy_find(Lower(q), Lowered(cn)) }

\* lines 2285-2286: the three queries the message says to try
LadderHints == <<"YPL1 ladder", "YPL2 ladder", "YSL NW ladder">>

\* tool_ladder up to line 2293: the message of line 2286, or the competition
\* and age group the table is then made for
tool_ladder_head(q, ln, cn) ==
    { IF c = "Other"
      THEN [type |-> "text", competition |-> NoName, data |-> LadderHints]
      ELSE [type |-> "ladder", competition |-> Lower(c), data |-> << >>] :
          c \in competition_to_use(q, ln, cn) }

NoCompetitionReturn == [type |-> "none", competition |-> NoName, data |-> << >>]

\* the router calls tool_competition_overview
CallCompetitionOverview ==
    /\ \E q \in OverviewTexts :
           /\ ccall' = [handler |-> "tool_competition_overview", text |-> q]
           /\ cret' = tool_competition_overview(q, competition_overview)
    /\ cpc' = "done"
    /\ UNCHANGED <<competition_overview, league_names, competition_names>>

\* the router calls tool_ladder
CallLadderHead ==
    /\ \E q \in LadderTexts :
           /\ ccall' = [handler |-> "tool_ladder", text |-> q]
           /\ cret' \in tool_ladder_head(q, league_names, competition_names)
    /\ cpc' = "done"
    /\ UNCHANGED <<competition_overview, league_names, competition_names>>

(***************************************************************************)
(* The data refresh (src/app.py force_reload_all_data, which runs the      *)
(* module-level statements of src/fast_agent.py again) and a query of      *)
(* another session running beside it.  A data file is held by the number   *)
(* of its version, snapshot k being version k of every file; a collection  *)
(* by the versions it was made from.                                       *)
(***************************************************************************)
\* the data files, in the order of the load_json statements (lines 158-164)
DataFiles ==
    << "master_results.json", "fixtures.json", "players_summary.json",
       "staff_summary.json", "master_match_centre.json", "master_lineups.json",
       "competition_overview.json" >>

\* the names lines 158-164 bind, each from the file of its place
LoadedNames ==
    << "results", "fixtures", "players_data", "staff_data", "match_centre_data",
       "lineups_data", "competition_overview" >>

FileOf(name) == DataFiles[CHOOSE i \in DOMAIN LoadedNames : LoadedNames[i] = name]

\* the indices lines 379-400 fill entry by entry
IndexNames == {"player_names", "player_lookup", "staff_names", "staff_lookup"}

\* a module-level statement: it loads a file into a name, binds a name to a
\* value made of other names, binds a name to an empty index, or is one
\* statement of the loop body that adds an entry to an index
Statement(name, kind) == [name |-> name, kind |-> kind]

\* lines 379-388 and 391-399: names = [], lookup = {}, and for each person
\* names.append(...) and lookup[...] = p
IndexSteps(names, lookup) ==
    << Statement(names, "clear"), Statement(lookup, "clear") >>
    \o [i \in 1..(2 * IndexSize) |->
           Statement(IF i % 2 = 1 THEN names ELSE lookup, "insert")]

\* the statements of fast_agent.py that bind or change a module-level name,
\* in their order (lines 158-164, 248, 252, 379-388, 391-399, 402-419)
ReloadSteps ==
    [i \in DOMAIN LoadedNames |-> Statement(LoadedNames[i], "load")]
    \o << Statement("players_summary", "bind"), Statement("staff_summary", "bind") >>
    \o IndexSteps("player_names", "player_lookup")
    \o IndexSteps("staff_names", "staff_lookup")
    \o << Statement("_all_people", "bind"), Statement("team_names", "bind"),
          Statement("league_names", "bind"), Statement("competition_names", "bind") >>

ReloadNames == {ReloadSteps[k].name : k \in DOMAIN ReloadSteps}

\* the names a statement reads: none for a load_json, which reads a file
SourcesOf(name) ==
    CASE name = "players_summary" -> {"players_data"}
      [] name = "staff_summary" -> {"staff_data"}
      [] name \in {"player_names", "player_lookup"} -> {"players_summary"}
      [] name \in {"staff_names", "staff_lookup"} -> {"staff_summary"}
      [] name = "_all_people" -> {"players_summary", "staff_summary"}
      [] name \in {"team_names", "league_names", "competition_names"} ->
             {"_all_people"}
      [] OTHER -> {}

\* the versions the value a statement binds is made from
MadeFrom(name, g) == UNION {g[n] : n \in SourcesOf(name)}

\* the place of the file the Dataset Normalizer writes next: it writes the
\* files of a snapshot one after another
NextFile ==
    LET behind == {i \in DOMAIN DataFiles :
                      disk[DataFiles[i]] < disk[DataFiles[1]]}
    IN  IF behind = {} THEN 1
        ELSE CHOOSE i \in behind : \A j \in behind : i <= j

\* the Dataset Normalizer writes the next file of a snapshot, whatever the
\* program is doing
WriteDataset ==
    /\ disk[DataFiles[NextFile]] < MaxRefreshes
    /\ disk' = [disk EXCEPT ![DataFiles[NextFile]] = @ + 1]
    /\ UNCHANGED <<loaded, entries, reload_at, reloads, qpc, qcall, seen, walk,
                   USER_CONFIG>>

\* force_reload_all_data: importlib.reload runs the statements of the module
\* from the first on, line 28 among them, up to the first load_json
StartReload ==
    /\ reload_at = 0 /\ reloads < MaxReloads
    /\ reload_at' = 1
    /\ reloads' = reloads + 1
    /\ USER_CONFIG' = USER_CONFIG_at_import
    /\ UNCHANGED <<disk, loaded, entries, qpc, qcall, seen, walk>>

\* a handler reads a module-level name at a line.  A name the reload only
\* binds anew keeps its old object whole for whoever holds it, so reading it
\* is one step whatever the handler does with the object; an index the reload
\* fills in place is either asked for a key ("get") or walked entry by entry
\* ("walk": a for loop, a comprehension or a generator over it)
Read(name, how, line) == [name |-> name, how |-> how, line |-> line]

\* the queries FastQueryRouter.process hands on by three of its rules, each
\* with the handler it calls: today's results (lines 2725-2729), the stats of
\* a team or of a person (2791-2804) and the default (2818-2821)
Routes ==
    { [rule |-> "todays_results", handler |-> "tool_todays_results"],
      [rule |-> "stats", handler |-> "tool_team_stats"],
      [rule |-> "stats", handler |-> "tool_players"],
      [rule |-> "default", handler |-> "tool_form"],
      [rule |-> "default", handler |-> "tool_matches"] }
NoQueryCall == [rule |-> "", handler |-> ""]

\* the indices that are dicts (lines 380 and 392); the other two are lists
DictNames == {"player_lookup", "staff_lookup"}

\* no walk is under way
NoWalk == [name |-> "", dict |-> "none", count |-> 0]

\* what a statement of the reload does to the index a query is walking.  A
\* clear binds the name to a new object and leaves the walked one as it is
\* at that moment; an insert into a walked dict changes its size, which the
\* walk takes as an error at its next step; an append to a walked list is
\* one more entry for the walk to reach
WalkAfter(st) ==
    IF st.name # walk.name \/ walk.dict # "bound" THEN walk
    ELSE IF st.kind = "clear"
         THEN [walk EXCEPT !.dict = "unbound", !.count = entries[st.name]]
    ELSE IF st.kind = "insert" /\ st.name \in DictNames
         THEN [walk EXCEPT !.dict = "resized"]
    ELSE walk

\* the next statement runs; after the last, line 665 makes the new router and
\* the reload is over
ReloadStep ==
    /\ reload_at \in DOMAIN ReloadSteps
    /\ LET st == ReloadSteps[reload_at]
       IN  CASE st.kind = "load" ->
                    /\ loaded' = [loaded EXCEPT ![st.name] = {disk[FileOf(st.name)]}]
                    /\ UNCHANGED entries
             [] st.kind = "bind" ->
                    /\ loaded' = [loaded EXCEPT ![st.name] = MadeFrom(st.name, loaded)]
                    /\ UNCHANGED entries
             [] st.kind = "clear" ->
                    /\ loaded' = [loaded EXCEPT ![st.name] = MadeFrom(st.name, loaded)]
                    /\ entries' = [entries EXCEPT ![st.name] = 0]
             [] st.kind = "insert" ->
                    /\ entries' = [entries EXCEPT ![st.name] = @ + 1]
                    /\ UNCHANGED loaded
    /\ walk' = WalkAfter(ReloadSteps[reload_at])
    /\ reload_at' = IF reload_at = Len(ReloadSteps) THEN 0 ELSE reload_at + 1
    /\ UNCHANGED <<disk, reloads, qpc, qcall, seen, USER_CONFIG>>

\* what a query finds under a name at a line: the versions it is made from,
\* the entries it holds (of an index; 0 stands for a name that is no index)
\* and whether it holds all its entries
Found(n, line) ==
    [name |-> n, line |-> line, from |-> loaded[n],
     count |-> IF n \in IndexNames THEN entries[n] ELSE 0,
     whole |-> n \in IndexNames => entries[n] = IndexSize]

\* the last read a query made at a line, and the number of its reads there
LastAt(s, line) ==
    s[CHOOSE i \in DOMAIN s :
          /\ s[i].line = line
          /\ \A j \in DOMAIN s : s[j].line = line => j <= i]
Times(s, line) == Cardinality({i \in DOMAIN s : s[i].line = line})

\* line 2154: process.extract(..., limit=5) gives a suggestion for each name
\* it is handed, five at most
Suggestions(s) ==
    IF LastAt(s, 2154).count < 5 THEN LastAt(s, 2154).count ELSE 5

\* lines 2143 and 2144: the name fuzzy_find chose among those walked at line
\* 2141 is looked up in player_lookup.  The k-th name of a snapshot is the
\* k-th key of its player_lookup; the names of two snapshots may differ.
\* The k for which the name may be the k-th of the dict asked at line 2143:
MatchedPlaces(s) ==
    LET walked == LastAt(s, 2141)
        dict43 == LastAt(s, 2143)
    IN  IF walked.from = dict43.from
        THEN {k \in 1..walked.count : k <= dict43.count}
        ELSE 1..dict43.count

\* line 2143, matched_name in player_lookup: it may be there, it may be missing
MayHold(s) == LastAt(s, 2143).count >= 1
MayLack(s) ==
    LET walked == LastAt(s, 2141)
        dict43 == LastAt(s, 2143)
    IN  walked.from # dict43.from \/ walked.count > dict43.count

\* tool_todays_results (lines 1087-1098): fixtures, results, and both again
\* for their lengths
todays_results_reads(s) ==
    LET at == IF s = << >> THEN 0 ELSE s[Len(s)].line
    IN  IF at = 0 THEN {Read("fixtures", "get", 1087)}
        ELSE IF at = 1087 THEN {Read("results", "get", 1093)}
        ELSE IF at = 1093 THEN {Read("fixtures", "get", 1098)}
        ELSE IF s[Len(s)].name = "fixtures" THEN {Read("results", "get", 1098)}
        ELSE {}

\* process and tool_team_stats (lines 2794 and 1806-1878): normalize_team
\* reads team_names in fuzzy_team (line 427) for the text of the query; the
\* handler asks it again (line 1819) unless the team is of a club of
\* CLUB_ALIASES, reads players_summary in one of three comprehensions (lines
\* 1826, 1828, 1830) and, if the team has players, results
team_stats_reads(s) ==
    LET at == IF s = << >> THEN 0 ELSE s[Len(s)].line
    IN  IF at = 0 THEN {Read("team_names", "get", 2794)}
        ELSE IF at = 2794
             THEN {Read("team_names", "get", 1819),
                   Read("players_summary", "get", 1826),
                   Read("players_summary", "get", 1828)}
        ELSE IF at = 1819 THEN {Read("players_summary", "get", 1830)}
        ELSE IF at \in {1826, 1828, 1830} THEN {Read("results", "get", 1878)}
        ELSE {}

\* the text process hands tool_players is not empty: normalize_team has read
\* team_names for it (lines 453-454 return at once on an empty text)
Named(s) == s # << >> /\ s[1].line = 2794

\* process and tool_players (lines 2794, 1986-2158).  The handler walks
\* player_lookup; if no player holds the text it walks staff_lookup; if no
\* staff member does it walks player_names for fuzzy_find (line 2141), asks
\* player_lookup for the name it chose (lines 2143 and 2144) or walks
\* player_names again for suggestions (line 2154) and once more for each
\* suggestion (line 2158).  Every entry holds an empty text
players_reads(s) ==
    LET at == IF s = << >> THEN 0 ELSE s[Len(s)].line
        last == s[Len(s)]
    IN  IF at = 0
        THEN {Read("team_names", "get", 2794), Read("player_lookup", "walk", 1986)}
        ELSE IF at = 2794 THEN {Read("player_lookup", "walk", 1986)}
        ELSE IF at = 1986
             THEN IF Named(s) \/ last.count = 0
                  THEN {Read("staff_lookup", "walk", 1993)} ELSE {}
        ELSE IF at = 1993
             THEN IF Named(s) \/ last.count = 0
                  THEN {Read("player_names", "walk", 2141)} ELSE {}
        ELSE IF at = 2141
             THEN (IF Named(s) /\ last.count >= 1
                   THEN {Read("player_lookup", "get", 2143)} ELSE {})
                  \cup {Read("player_names", "walk", 2154)}
        ELSE IF at = 2143
             THEN (IF MayHold(s) THEN {Read("player_lookup", "get", 2144)} ELSE {})
                  \cup (IF MayLack(s) THEN {Read("player_names", "walk", 2154)}
                        ELSE {})
        ELSE IF at \in {2154, 2158} /\ Times(s, 2158) < Suggestions(s)
             THEN {Read("player_names", "walk", 2158)}
        ELSE {}

\* process and tool_form (lines 2818, 2379, 2382)
form_reads(s) ==
    LET at == IF s = << >> THEN 0 ELSE s[Len(s)].line
    IN  IF at = 0 THEN {Read("team_names", "get", 2818)}
        ELSE IF at = 2818 THEN {Read("team_names", "get", 2379)}
        ELSE IF at = 2379 THEN {Read("results", "get", 2382)}
        ELSE {}

\* process and tool_matches (lines 2818, 2171-2183); normalize_team reads
\* nothing for an empty query
matches_reads(s) ==
    LET at == IF s = << >> THEN 0 ELSE s[Len(s)].line
    IN  IF at = 0
        THEN {Read("team_names", "get", 2818), Read("results", "get", 2174)}
        ELSE IF at = 2818 THEN {Read("team_names", "get", 2171)}
        ELSE IF at = 2171 THEN {Read("results", "get", 2174)}
        ELSE IF at = 2174 THEN {Read("fixtures", "get", 2183)}
        ELSE {}

\* the reads that can come next in a query that has made the reads s
NextReads(c, s) ==
    CASE c.handler = "tool_todays_results" -> todays_results_reads(s)
      [] c.handler = "tool_team_stats" -> team_stats_reads(s)
      [] c.handler = "tool_players" -> players_reads(s)
      [] c.handler = "tool_form" -> form_reads(s)
      [] c.handler = "tool_matches" -> matches_reads(s)

\* the handler returns after the reads s: tool_team_stats without players
\* (line 1836) or after results; tool_players with a match among the players
\* (lines 2028-2136) or the staff (lines 2024-2026), after line 2144 or after
\* the last suggestion; the others after their last read
MayReturn(c, s) ==
    LET at == IF s = << >> THEN 0 ELSE s[Len(s)].line
    IN  CASE c.handler = "tool_team_stats" -> at \in {1826, 1828, 1830, 1878}
          [] c.handler = "tool_players" ->
                 \/ at \in {1986, 1993} /\ s[Len(s)].count >= 1
                 \/ at = 2144
                 \/ at \in {2154, 2158} /\ Times(s, 2158) = Suggestions(s)
          [] OTHER -> at # 0 /\ NextReads(c, s) = {}

\* line 2144, player_lookup[matched_name]: the dict bound to the name by now
\* may lack the key, and the handler raises KeyError
MayRaiseAt(rd, s) ==
    /\ rd.line = 2144
    /\ \/ loaded[rd.name] # LastAt(s, 2143).from
       \/ \E k \in MatchedPlaces(s) : k > entries[rd.name]
MayPassAt(rd, s) ==
    rd.line = 2144 => entries[rd.name] >= 1

\* a query of another session enters process
QueryStart ==
    /\ qpc # "running"
    /\ qpc' = "running"
    /\ qcall' \in Routes
    /\ seen' = << >>
    /\ UNCHANGED <<disk, loaded, entries, reload_at, reloads, walk, USER_CONFIG>>

\* the query comes to its next read of a module-level name.  Of an index it
\* walks, this is the start of the walk; the for statement over the items of
\* a dict takes its first entry in the same step, so the loop over a dict
\* without entries is over at once
QueryRead ==
    /\ qpc = "running" /\ walk = NoWalk
    /\ \E rd \in NextReads(qcall, seen) :
          /\ seen' = Append(seen, Found(rd.name, rd.line))
          /\ walk' = IF /\ rd.how = "walk"
                        /\ ~(rd.name \in DictNames /\ entries[rd.name] = 0)
                     THEN [name |-> rd.name, dict |-> "bound", count |-> 0]
                     ELSE walk
          /\ \/ MayPassAt(rd, seen) /\ qpc' = qpc
             \/ MayRaiseAt(rd, seen) /\ qpc' = "raised"
    /\ UNCHANGED <<disk, loaded, entries, reload_at, reloads, qcall, USER_CONFIG>>

\* the walk asks the index for its next entry.  There is none and the loop
\* is over, having gone through the entries the object it walks holds by
\* now; or the dict has changed size since the walk began and the handler
\* raises RuntimeError, which process hands on
QueryWalkEnd ==
    /\ qpc = "running" /\ walk # NoWalk
    /\ IF walk.dict = "resized"
       THEN qpc' = "raised" /\ UNCHANGED seen
       ELSE LET n == IF walk.dict = "unbound" THEN walk.count
                     ELSE entries[walk.name]
            IN  /\ qpc' = qpc
                /\ seen' = [seen EXCEPT ![Len(seen)].count = n,
                                        ![Len(seen)].whole = n = IndexSize]
    /\ walk' = NoWalk
    /\ UNCHANGED <<disk, loaded, entries, reload_at, reloads, qcall, USER_CONFIG>>

\* the handler returns
QueryReturn ==
    /\ qpc = "running" /\ walk = NoWalk
    /\ MayReturn(qcall, seen)
    /\ qpc' = "done"
    /\ UNCHANGED <<disk, loaded, entries, reload_at, reloads, qcall, seen, walk,
                   USER_CONFIG>>

(***************************************************************************)
(* Leader boards (src/fast_agent.py): tool_top_scorers, tool_yellow_cards  *)
(* and tool_red_cards over players_summary and staff_summary.  goals,      *)
(* yellow_cards and red_cards stand for the entries of stats; name stands  *)
(* for f"{first_name} {last_name}".  The pictograph that opens a title or  *)
(* a message is left out.                                                  *)
(***************************************************************************)
\* players as _normalize_person leaves them
BoardPlayers ==
    << [name |-> "Ann", role |-> "player",
        team_name |-> "Heidelberg United FC U16",
        teams |-> <<"Heidelberg United FC U16">>,
        goals |-> 3, yellow_cards |-> 1, red_cards |-> 0],
       [name |-> "Ben", role |-> "player",
        team_name |-> "Heidelberg United FC U15",
        teams |-> <<"Heidelberg United FC U15", "Heidelberg United FC U16">>,
        goals |-> 3, yellow_cards |-> 2, red_cards |-> 1],
       [name |-> "Cat", role |-> "player",
        team_name |-> "Brunswick Juventus FC U16",
        teams |-> << >>,
        goals |-> 0, yellow_cards |-> 0, red_cards |-> 1],
       [name |-> "Gus", role |-> "player",
        team_name |-> "Heidelberg United FC U16",
        teams |-> <<"Heidelberg United FC U16">>,
        goals |-> 5, yellow_cards |-> 0, red_cards |-> 0] >>

\* staff as _normalize_person leaves them
BoardStaff ==
    << [name |-> "Dan", role |-> "Coach",
        team_name |-> "Heidelberg United FC U15",
        teams |-> <<"Heidelberg United FC U15", "Brunswick Juventus FC U16">>,
        goals |-> 0, yellow_cards |-> 1, red_cards |-> 1],
       [name |-> "Fay", role |-> "Team Manager",
        team_name |-> "Heidelberg United FC U16",
        teams |-> <<"Heidelberg United FC U16">>,
        goals |-> 0, yellow_cards |-> 2, red_cards |-> 0] >>

\* a squad list of n players of one team, each with goals and cards
Crowd(n) ==
    [i \in 1..n |->
        [name |-> "P" \o ToString(i), role |-> "player",
         team_name |-> "Heidelberg United FC U16",
         teams |-> <<"Heidelberg United FC U16">>,
         goals |-> 1 + (i % 3), yellow_cards |-> 1 + (i % 2), red_cards |-> 1]]

\* lines 402-407: team_names, sorted, from the first team of players and staff
TeamNamesFrom(all) ==
    TeamNamesOf({i \in DOMAIN KnownTeams :
        \E k \in DOMAIN all :
            KnownTeams[i] = (IF all[k].team_name # "" THEN all[k].team_name
                             ELSE IF all[k].teams # << >> THEN all[k].teams[1]
                             ELSE "")})

\* the elements of s with the keys hi, hi - 1, ..., lo, each key in the order of s
RECURSIVE Downwards(_, _, _, _)
Downwards(s, Key(_), hi, lo) ==
    LET Is(p) == Key(p) = hi
    IN  IF hi < lo THEN << >>
        ELSE SelectSeq(s, Is) \o Downwards(s, Key, hi - 1, lo)

\* list.sort(key=..., reverse=True): descending, equal keys keep their order
SortedDesc(s, Key(_)) ==
    LET keys == {Key(s[i]) : i \in DOMAIN s}
    IN  IF s = << >> THEN << >>
        ELSE Downwards(s, Key, CHOOSE v \in keys : \A w \in keys : v >= w,
                               CHOOSE v \in keys : \A w \in keys : v <= w)

\* the three extractions of a query; none is made of an empty query
Extractions(q, tn) ==
    IF q = "" THEN {NoCriteria}
    ELSE {[age_group |-> extract_age_group(q), team_name |-> tm, base_club |-> bc] :
          tm \in extract_team_name(q, tn), bc \in extract_base_club_name(q, tn)}

\* lines 1549-1560, 1647-1656, 1749-1760: filter_desc
filter_desc(e, include_non_players) ==
    LET first == IF include_non_players THEN <<"Non-Players">> ELSE << >>
        filter_parts ==
            IF e.age_group # NoAge /\ e.team_name = NoName
                THEN Append(first, e.age_group)
            ELSE IF e.base_club # NoName /\ e.age_group = NoAge /\ e.team_name = NoName
                THEN Append(first, e.base_club)
            ELSE IF e.team_name # NoName THEN Append(first, e.team_name)
            ELSE first
    IN  IF filter_parts = << >> THEN ""
        ELSE IF Len(filter_parts) = 1 THEN " - " \o filter_parts[1]
        ELSE " - " \o filter_parts[1] \o " " \o filter_parts[2]

\* f" matching '{query}'" if query else ""
Matching(q) == IF q = "" THEN "" ELSE " matching '" \o q \o "'"

\* role.title()
RoleTitle(role) ==
    CASE role = "player" -> "Player"
      [] OTHER -> role

\* "Name" of a row of a card table
CardName(p) ==
    IF p.role # "player" THEN p.name \o " (" \o RoleTitle(p.role) \o ")" ELSE p.name

\* the texts the router passes to a leader board
BoardTexts == {"", "heid u16", "u16", "heid", "zzz", "Heidelberg United FC U16"}

\* limit: the default, and one that cuts a short list
TopScorersLimits == {2, 20}

\* line 1787: the title of the table of scorers
TopScorersTitle(desc, n, limit) ==
    "Top Scorers" \o desc \o " (" \o ToString(n)
        \o " players with goals, showing top "
        \o ToString(IF limit < n THEN limit ELSE n) \o ")"

\* lines 1563 and 1619: the header of the text and the title of the table
YellowCardsTitle(desc, n, show_details) ==
    "Yellow Cards" \o desc \o " (" \o ToString(n)
        \o (IF show_details THEN " total)" ELSE " total, showing top 30)")

\* lines 1661 and 1718: the header of the text and the title of the table
RedCardsTitle(desc, n) == "Red Cards" \o desc \o " (" \o ToString(n) \o " total)"

\* lines 1738-1788 of tool_top_scorers, scorers being the list after the filter
TopScorersOf(scorers, q, limit, e) ==
    LET Goals(p) == p.goals
        Row(s, i) == [Rank |-> i, Player |-> s[i].name, Team |-> s[i].team_name,
                      Goals |-> s[i].goals, Yellow |-> s[i].yellow_cards,
                      Red |-> s[i].red_cards]
    IN  IF scorers = << >>
        THEN {[criteria |-> e, list |-> << >>,
               result |-> [type |-> "error",
                           message |-> "No goal scorers found" \o Matching(q)]]}
        ELSE {[criteria |-> e, list |-> sorted,
               result |->
                 [type |-> "table",
                  data |-> [i \in DOMAIN FirstN(sorted, limit) |-> Row(sorted, i)],
                  title |-> TopScorersTitle(filter_desc(e, FALSE),
                                            Len(sorted), limit)]] :
              sorted \in {SortedDesc(scorers, Goals)}}

\* tool_top_scorers(query, limit)
tool_top_scorers(q, limit, ps, tn) ==
    LET HasGoals(p) == p.goals > 0 /\ (p.role = "" \/ p.role = "player")
    IN  UNION {UNION {TopScorersOf(scorers, q, limit, e) :
                      scorers \in {IF q = "" THEN SelectSeq(ps, HasGoals)
                                   ELSE filter_players_by_criteria(
                                            SelectSeq(ps, HasGoals), e, FALSE)}} :
               e \in Extractions(q, tn)}

\* players_with_yellows[:30] and players_with_yellows[:50]
YellowTableCap == 30
YellowDetailsCap == 50

\* the rows of a card table, or the people a detailed text lists
CardRow(s, i, column) ==
    [Rank |-> i, Name |-> CardName(s[i]), Team |-> s[i].team_name,
     Cards |-> IF column = "Yellow Cards" THEN s[i].yellow_cards ELSE s[i].red_cards]

\* lines 1520-1540 and 1625-1641: the people with a card that pass the filter
WithCards(source, q, e, include_non_players, Count(_)) ==
    LET Carded(p) == Count(p) > 0
        NonPlayer(p) == p.role # "" /\ p.role # "player"
        carded == SelectSeq(source, Carded)
    IN  IF q # "" THEN filter_players_by_criteria(carded, e, include_non_players)
        ELSE IF include_non_players THEN SelectSeq(carded, NonPlayer)
        ELSE carded

\* lines 1540-1620 of tool_yellow_cards, found being the list after the filter
YellowCardsOf(found, q, show_details, include_non_players, e) ==
    LET Yellows(p) == p.yellow_cards
        Title(n) == YellowCardsTitle(filter_desc(e, include_non_players), n,
                                     show_details)
    IN  IF found = << >>
        THEN {[criteria |-> e, list |-> << >>,
               result |-> [type |-> "text",
                           message |-> "No "
                             \o (IF include_non_players THEN "non-players" ELSE "players")
                             \o " with yellow cards found" \o Matching(q)]]}
        ELSE {[criteria |-> e, list |-> sorted,
               result |->
                 [type |-> IF show_details THEN "details" ELSE "table",
                  data |-> [i \in DOMAIN FirstN(sorted,
                                     IF show_details THEN YellowDetailsCap
                                     ELSE YellowTableCap) |->
                               CardRow(sorted, i, "Yellow Cards")],
                  title |-> Title(Len(sorted))]] :
              sorted \in {SortedDesc(found, Yellows)}}

\* tool_yellow_cards(query, show_details, include_non_players)
tool_yellow_cards(q, show_details, include_non_players, ps, ss, tn) ==
    LET Yellows(p) == p.yellow_cards
        source == IF include_non_players THEN ss ELSE ps
    IN  UNION {UNION {YellowCardsOf(found, q, show_details, include_non_players, e) :
                      found \in {WithCards(source, q, e, include_non_players,
                                           Yellows)}} :
               e \in Extractions(q, tn)}

\* lines 1636-1719 of tool_red_cards, found being the list after the filter
RedCardsOf(found, q, show_details, include_non_players, e) ==
    LET Reds(p) == p.red_cards
    IN  IF found = << >>
        THEN {[criteria |-> e, list |-> << >>,
               result |-> [type |-> "text",
                           message |-> "No "
                             \o (IF include_non_players THEN "non-players" ELSE "players")
                             \o " with red cards found" \o Matching(q)]]}
        ELSE {[criteria |-> e, list |-> sorted,
               result |->
                 [type |-> IF show_details THEN "details" ELSE "table",
                  data |-> [i \in DOMAIN sorted |-> CardRow(sorted, i, "Red Cards")],
                  title |-> RedCardsTitle(filter_desc(e, include_non_players),
                                          Len(sorted))]] :
              sorted \in {SortedDesc(found, Reds)}}

\* tool_red_cards(query, show_details, include_non_players)
tool_red_cards(q, show_details, include_non_players, ps, ss, tn) ==
    LET Reds(p) == p.red_cards
        source == IF include_non_players THEN ss ELSE ps
    IN  UNION {UNION {RedCardsOf(found, q, show_details, include_non_players, e) :
                      found \in {WithCards(source, q, e, include_non_players,
                                           Reds)}} :
               e \in Extractions(q, tn)}

NoBoardCall ==
    [fn |-> "none", query |-> "", limit |-> 0, show_details |-> FALSE,
     include_non_players |-> FALSE]
NoBoard == [type |-> "none"]

\* what a leader board leaves alone
boardFrame ==
    <<players_summary, staff_summary, fpc, people, fargs, filtered,
      dpc, dquery, dfilters, dout>>
normalizeFrame == <<raw_person, npc, person>>

CallTopScorers ==
    /\ \E q \in BoardTexts, limit \in TopScorersLimits :
         \E o \in tool_top_scorers(q, limit, players_summary, team_names) :
            /\ bcall' = [fn |-> "tool_top_scorers", query |-> q, limit |-> limit,
                         show_details |-> FALSE, include_non_players |-> FALSE]
            /\ extracted' = o.criteria
            /\ listed' = o.list
            /\ board' = o.result
    /\ UNCHANGED <<boardFrame, normalizeFrame>>

CallYellowCards ==
    /\ \E q \in BoardTexts, sd \in BOOLEAN, inp \in BOOLEAN :
         \E o \in tool_yellow_cards(q, sd, inp, players_summary, staff_summary,
                                    team_names) :
            /\ bcall' = [fn |-> "tool_yellow_cards", query |-> q, limit |-> 0,
                         show_details |-> sd, include_non_players |-> inp]
            /\ extracted' = o.criteria
            /\ listed' = o.list
            /\ board' = o.result
    /\ UNCHANGED <<boardFrame, normalizeFrame>>

CallRedCards ==
    /\ \E q \in BoardTexts, sd \in BOOLEAN, inp \in BOOLEAN :
         \E o \in tool_red_cards(q, sd, inp, players_summary, staff_summary,
                                 team_names) :
            /\ bcall' = [fn |-> "tool_red_cards", query |-> q, limit |-> 0,
                         show_details |-> sd, include_non_players |-> inp]
            /\ extracted' = o.criteria
            /\ listed' = o.list
            /\ board' = o.result
    /\ UNCHANGED <<boardFrame, normalizeFrame>>

(***************************************************************************)
(* _normalize_person (src/fast_agent.py).  A person and a match entry are  *)
(* JSON objects: functions of the keys they hold.                          *)
(***************************************************************************)
\* Python's "not v" for a string or None, and for a number or None
PyFalse(v) == v \in {NoName, ""}
NoNumber(v) == v \in {Null, 0}

\* out[k] = v
SetKey(obj, k, v) == [x \in DOMAIN obj \cup {k} |-> IF x = k THEN v ELSE obj[x]]

\* the events of a match entry as the two scrapers write them
MatchEvents ==
    << << >>,
       << [type |-> "yellow_card", minute |-> 30] >>,
       << [event_type |-> "Goal", minute |-> Null],
          [type |-> "red_card", minute |-> 80],
          [type |-> "goal", minute |-> 55] >> >>

\* the entries a person's matches can hold; the first two are of one match
MatchEntries ==
    << [match_hash_id |-> "m1", opponent |-> "A", events |-> MatchEvents[1]],
       [match_hash_id |-> "m1", opponent |-> "B", events |-> MatchEvents[2],
        opponent_team_name |-> "B FC"],
       [match_hash_id |-> "m2", opponent |-> "A", events |-> MatchEvents[3],
        goals |-> 1],
       [match_hash_id |-> NoName, opponent |-> "A", events |-> MatchEvents[1]],
       [match_hash_id |-> "", opponent |-> "B", events |-> MatchEvents[2]],
       [opponent |-> "", events |-> MatchEvents[1]],
       [match_hash_id |-> "m3", opponent |-> "A", events |-> MatchEvents[3]] >>

\* the persons of players_summary.json and staff_summary.json, before their
\* matches: of the dribl scraper, and of the legacy one
RawHeaders ==
    { [first_name |-> "Ann", teams |-> <<"T1", "T2">>, leagues |-> <<"L1">>,
       role |-> "player", jersey |-> "7",
       stats |-> [goals |-> 1, matches_played |-> 3]],
      [first_name |-> "Dan", team_name |-> "T1", league_name |-> "L1",
       role_slug |-> "coach", roles |-> <<"Head Coach">>,
       stats |-> [matches_attended |-> 2]],
      [first_name |-> "Eve", team_name |-> "", teams |-> << >>, role_slug |-> ""],
      [first_name |-> "Fay", role |-> NoName, competition_name |-> "C1"] }

\* lines 176-181: team_name, league_name and competition_name
NormalizeNames(p) ==
    LET a == IF PyFalse(Get(p, "team_name", NoName)) /\ Get(p, "teams", << >>) # << >>
             THEN SetKey(p, "team_name", p.teams[1]) ELSE p
        b == IF PyFalse(Get(a, "league_name", NoName)) /\ Get(a, "leagues", << >>) # << >>
             THEN SetKey(a, "league_name", a.leagues[1]) ELSE a
    IN  IF PyFalse(Get(b, "competition_name", NoName))
           /\ ~PyFalse(Get(b, "league_name", NoName))
        THEN SetKey(b, "competition_name", b.league_name) ELSE b

\* lines 184-192: role
NormalizeRole(p) ==
    LET role_slug == Get(p, "role_slug", "player")
        roles == Get(p, "roles", << >>)
    IN  IF ~PyFalse(Get(p, "role", NoName)) THEN p
        ELSE IF role_slug = "player" THEN SetKey(p, "role", "player")
        ELSE IF roles # << >> THEN SetKey(p, "role", roles[1])
        ELSE SetKey(p, "role", IF PyFalse(role_slug) THEN "staff" ELSE role_slug)

\* lines 195-202: jersey and stats
NormalizeStats(p, is_player) ==
    LET a == IF "jersey" \notin DOMAIN p /\ ~is_player THEN SetKey(p, "jersey", "") ELSE p
        stats == Get(a, "stats", << >>)
    IN  SetKey(a, "stats",
               IF "matches_played" \in DOMAIN stats THEN stats
               ELSE SetKey(stats, "matches_played", Get(stats, "matches_attended", 0)))

\* lines 206-216, keeping the last entry of a match instead of the first
KeptPlaces_last(raw_matches) ==
    {i \in DOMAIN raw_matches :
        LET mid == Get(raw_matches[i], "match_hash_id", NoName)
        IN  \/ PyFalse(mid)
            \/ ~\E j \in DOMAIN raw_matches :
                  j > i /\ Get(raw_matches[j], "match_hash_id", NoName) = mid}

\* lines 206-216: the places of raw_matches the loop appends to deduped
KeptPlaces(raw_matches) ==
    {i \in DOMAIN raw_matches :
        LET mid == Get(raw_matches[i], "match_hash_id", NoName)
        IN  \/ PyFalse(mid)
            \/ ~\E j \in DOMAIN raw_matches :
                  j < i /\ Get(raw_matches[j], "match_hash_id", NoName) = mid}

\* _etype(e)
EventType(e) ==
    LET t == Get(e, "type", NoName)
        u == Get(e, "event_type", NoName)
    IN  Lower(IF ~PyFalse(t) THEN t ELSE IF ~PyFalse(u) THEN u ELSE "")

\* lines 221-241: the convenience fields of a match entry
Flatten(mt) ==
    LET a == IF "opponent_team_name" \notin DOMAIN mt /\ ~PyFalse(Get(mt, "opponent", NoName))
             THEN SetKey(mt, "opponent_team_name", mt.opponent) ELSE mt
        events == Get(a, "events", << >>)
        Of(kind) == LET Is(e) == EventType(e) = kind IN SelectSeq(events, Is)
        Timed(e) == ~NoNumber(Get(e, "minute", Null))
        Minutes(es) == LET timed == SelectSeq(es, Timed)
                       IN  [k \in DOMAIN timed |-> timed[k].minute]
        Default(obj, k, v) == IF k \in DOMAIN obj THEN obj ELSE SetKey(obj, k, v)
    IN  IF events = << >> THEN a
        ELSE Default(Default(Default(Default(Default(Default(a,
                 "yellow_cards", Len(Of("yellow_card"))),
                 "yellow_minutes", Minutes(Of("yellow_card"))),
                 "red_cards", Len(Of("red_card"))),
                 "red_minutes", Minutes(Of("red_card"))),
                 "goals", Len(Of("goal"))),
                 "goal_minutes", Minutes(Of("goal")))

\* _normalize_person(p, is_player)
normalize_person(p, is_player) ==
    LET a == NormalizeStats(NormalizeRole(NormalizeNames(p)), is_player)
        raw_matches == Get(a, "matches", << >>)
        deduped == SubList(raw_matches, KeptPlaces(raw_matches))
    IN  SetKey(a, "matches", [k \in DOMAIN deduped |-> Flatten(deduped[k])])

\* what the call leaves of its argument: dict(p) copies one level, so the
\* stats of line 199 and the convenience fields of lines 221-241 are written
\* into the stats and into the kept match entries of p itself
argument_after(p) ==
    LET a == IF "stats" \in DOMAIN p /\ "matches_played" \notin DOMAIN p.stats
             THEN SetKey(p, "stats",
                         SetKey(p.stats, "matches_played",
                                Get(p.stats, "matches_attended", 0)))
             ELSE p
    IN  IF "matches" \notin DOMAIN p THEN a
        ELSE SetKey(a, "matches",
                    [i \in DOMAIN p.matches |->
                        IF i \in KeptPlaces(p.matches) THEN Flatten(p.matches[i])
                        ELSE p.matches[i]])

NoPerson == << >>

\* what the load of a data file leaves alone
loadFrame == <<fpc, people, fargs, filtered, dpc, dquery, dfilters, dout>>

\* lines 246-252: a person of a data file is normalised when the module
\* loads it; the normalised persons of the players file are bound to
\* players_summary (line 248) and those of the staff file to staff_summary
\* (line 252); the person is the only one of its file and the other file
\* holds no one
CallNormalizePerson ==
    /\ npc = "idle"
    /\ \E is_player \in BOOLEAN :
          /\ person' = normalize_person(raw_person, is_player)
          /\ npc' = IF is_player THEN "player" ELSE "staff"
          /\ players_summary' = IF is_player THEN <<person'>> ELSE << >>
          /\ staff_summary' = IF is_player THEN << >> ELSE <<person'>>
    /\ raw_person' = argument_after(raw_person)
    /\ UNCHANGED <<loadFrame, extracted, bcall, listed, board>>

(***************************************************************************)
(* Sessions (src/app.py): the session state of one browser session, the    *)
(* logins of the login page and the timeout check main() makes on every    *)
(* run of an authenticated session.  Time is in seconds.                   *)
(***************************************************************************)
\* line 28
SESSION_TIMEOUT_MINUTES == 240

\* line 239: the seconds time_diff is compared with
TimeoutSeconds == SESSION_TIMEOUT_MINUTES * 260

\* the clock of a session runs over this many seconds
MaxWall == 80000
\* the number of session ids a session goes through
MaxSessions == 3

\* the time between two runs of the script: around 240 minutes and around
\* the seconds of line 239
Delays == {14400, 14401, 62400, 62401}

\* lines 175-195: init_session_state on a new session
FreshSession ==
    [authenticated |-> FALSE, user_type |-> NoName, username |-> NoName,
     full_name |-> NoName, role |-> NoName, session_id |-> 1,
     last_activity |-> 0]

\* whom the login page logs in: a person of the selection form with the
\* club and age group of the profile (lines 388-419), the administrator
\* (lines 435-440).  The block of a saved selection (lines 308-335) needs a
\* selection saved under the session id, and every logout makes a new id
Logins ==
    { [user_type |-> "player", username |-> "p1", full_name |-> "Ann",
       role |-> "player", club |-> "Brunswick Juventus FC", age_group |-> "U15"],
      [user_type |-> "player", username |-> "p2", full_name |-> "Dan",
       role |-> "Coach", club |-> "Heidelberg United FC", age_group |-> NoName],
      [user_type |-> "admin", username |-> "admin",
       full_name |-> "Administrator", role |-> "admin",
       club |-> NoName, age_group |-> NoName] }

\* the clubs and the age groups of the profiles; an age group can be None or ""
ProfileClubs == {"Heidelberg United FC", "Brunswick Juventus FC"}
ProfileAges == {"U15", "", NoName}

\* app.py lines 1205-1218: update_user_config, the USER_CONFIG it leaves
update_user_config(club_name, age_group) ==
    [team |-> IF ~PyFalse(age_group) THEN club_name \o " " \o age_group
              ELSE club_name,
     club |-> club_name,
     age_group |-> IF ~PyFalse(age_group) THEN age_group ELSE ""]

\* update_user_config is called between two queries
UpdateUserConfig ==
    /\ \E club_name \in ProfileClubs, age_group \in ProfileAges :
           USER_CONFIG' = update_user_config(club_name, age_group)
    /\ UNCHANGED <<spc, asked, routed>>

\* app.py lines 649-665: force_reload_all_data between two queries, with the
\* data files as they were; line 28 of fast_agent.py runs again
ReloadUserConfig ==
    /\ USER_CONFIG' = USER_CONFIG_at_import
    /\ UNCHANGED <<spc, asked, routed>>

\* lines 256-275: logout_user, the session state it leaves
logout_user(ss) ==
    [ss EXCEPT !.authenticated = FALSE, !.user_type = NoName,
               !.username = NoName, !.full_name = NoName, !.role = NoName,
               !.session_id = ss.session_id + 1]

\* lines 258-263: the log_logout call of logout_user
LogAfterLogout(ss, log) ==
    IF ss.authenticated THEN Append(log, ss.session_id) ELSE log

\* time passes between two runs of the script
Wait ==
    /\ \E d \in Delays :
           /\ wall + d <= MaxWall
           /\ wall' = wall + d
    /\ last_op' = "wait"
    /\ UNCHANGED <<session_state, time_diff, sret, logout_log, USER_CONFIG>>

\* the login page logs a visitor in; the login of a person of the form
\* calls update_user_config (line 404)
Login ==
    /\ ~session_state.authenticated
    /\ session_state.session_id < MaxSessions
    /\ \E who \in Logins :
           /\ session_state' =
                  [session_state EXCEPT !.authenticated = TRUE,
                                        !.user_type = who.user_type,
                                        !.username = who.username,
                                        !.full_name = who.full_name,
                                        !.role = who.role,
                                        !.last_activity = wall]
           /\ USER_CONFIG' = IF who.user_type = "player"
                             THEN update_user_config(who.club, who.age_group)
                             ELSE USER_CONFIG
    /\ last_op' = "login"
    /\ UNCHANGED <<wall, time_diff, sret, logout_log>>

\* lines 1328-1330 and 175-195: the Logout button of main_app, which main()
\* shows after check_session_timeout returned True, clears the session
\* state; init_session_state of the next run sets its keys anew, with a new
\* session id, and logout_user is not called
LogoutButton ==
    /\ session_state.authenticated
    /\ last_op = "check" /\ sret = "True"
    /\ session_state' =
           [FreshSession EXCEPT !.session_id = session_state.session_id + 1,
                                !.last_activity = wall]
    /\ last_op' = "logout"
    /\ UNCHANGED <<wall, time_diff, sret, logout_log, USER_CONFIG>>

\* lines 1336-1344 and 649-665: the Refresh Data button, which main_app shows
\* an administrator, calls force_reload_all_data; line 28 of fast_agent.py
\* runs again
RefreshDataButton ==
    /\ session_state.authenticated /\ session_state.role = "admin"
    /\ last_op = "check" /\ sret = "True"
    /\ USER_CONFIG' = USER_CONFIG_at_import
    /\ last_op' = "refresh"
    /\ UNCHANGED <<wall, session_state, time_diff, sret, logout_log>>

\* lines 235-246: check_session_timeout
CheckSessionTimeout ==
    /\ last_op' = "check"
    /\ IF session_state.authenticated
       THEN /\ time_diff' = wall - session_state.last_activity
            /\ IF time_diff' > TimeoutSeconds
               THEN /\ session_state' = logout_user(session_state)
                    /\ logout_log' = LogAfterLogout(session_state, logout_log)
                    /\ sret' = "False"
               ELSE /\ session_state' =
                           [session_state EXCEPT !.last_activity = wall]
                    /\ sret' = "True"
                    /\ UNCHANGED logout_log
       ELSE /\ sret' = "True"
            /\ time_diff' = Null
            /\ UNCHANGED <<session_state, logout_log>>
    /\ UNCHANGED <<wall, USER_CONFIG>>

(***************************************************************************)
(* Users (src/config.py): the users of users_config.json and the four      *)
(* functions that manage them.                                             *)
(***************************************************************************)
\* hashlib.sha256(password).hexdigest(): one digest for each password
hash_password(password) == "sha256(" \o password \o ")"

\* line 130
verify_password(password, password_hash) ==
    hash_password(password) = password_hash

\* lines 42-48: get_secret_password without secrets and environment
get_secret_password(username) ==
    CASE username = "admin" -> "admin123"
      [] username = "coach" -> "coach123"
      [] username = "parent" -> "parent123"
      [] OTHER -> "changeme123"

\* lines 84-101
build_default_users ==
    [u \in {"admin", "coach", "parent"} |->
        [password_hash |-> hash_password(get_secret_password(u)),
         role |-> IF u = "admin" THEN "admin" ELSE "user",
         full_name |-> CASE u = "admin" -> "Administrator"
                          [] u = "coach" -> "Coach"
                          [] u = "parent" -> "Parent"]]

\* lines 107-117
load_users == IF file_exists THEN users_file ELSE build_default_users

\* the names and passwords the functions are called with
UserNames == {"admin", "coach", "zoe"}
Passwords == {"admin123", "coach123", "pw1"}
Roles == {"user", "admin"}

NoUserCall == [fn |-> "none", username |-> ""]
NoUserReturn == <<FALSE, "">>

\* lines 119-122: save_users
SaveUsers(users) ==
    /\ file_exists' = TRUE
    /\ users_file' = users

\* users[username] = value
PutUser(users, username, value) ==
    [u \in DOMAIN users \cup {username} |->
        IF u = username THEN value ELSE users[u]]

\* del users[username]
DelUser(users, username) == [u \in DOMAIN users \ {username} |-> users[u]]

\* lines 150-164
add_user(username, password, role, full_name) ==
    LET users == load_users
    IN  IF username \in DOMAIN users
        THEN /\ uret' = <<FALSE, "Username already exists">>
             /\ UNCHANGED <<file_exists, users_file>>
        ELSE /\ SaveUsers(PutUser(users, username,
                     [password_hash |-> hash_password(password),
                      role |-> role,
                      full_name |-> IF full_name = "" THEN username
                                    ELSE full_name]))
             /\ uret' = <<TRUE, "User added successfully">>

\* remove_user without the test of line 173
remove_user_anyone(username) ==
    LET users == load_users
    IN  IF username \notin DOMAIN users
        THEN /\ uret' = <<FALSE, "User not found">>
             /\ UNCHANGED <<file_exists, users_file>>
        ELSE /\ SaveUsers(DelUser(users, username))
             /\ uret' = <<TRUE, "User removed successfully">>

\* lines 166-178
remove_user(username) ==
    LET users == load_users
    IN  IF username \notin DOMAIN users
        THEN /\ uret' = <<FALSE, "User not found">>
             /\ UNCHANGED <<file_exists, users_file>>
        ELSE IF username = "admin"
        THEN /\ uret' = <<FALSE, "Cannot remove admin user">>
             /\ UNCHANGED <<file_exists, users_file>>
        ELSE /\ SaveUsers(DelUser(users, username))
             /\ uret' = <<TRUE, "User removed successfully">>

\* lines 180-192
change_password(username, old_password, new_password) ==
    LET users == load_users
    IN  IF username \notin DOMAIN users
        THEN /\ uret' = <<FALSE, "User not found">>
             /\ UNCHANGED <<file_exists, users_file>>
        ELSE IF ~verify_password(old_password, users[username].password_hash)
        THEN /\ uret' = <<FALSE, "Incorrect old password">>
             /\ UNCHANGED <<file_exists, users_file>>
        ELSE /\ SaveUsers([users EXCEPT ![username].password_hash =
                                            hash_password(new_password)])
             /\ uret' = <<TRUE, "Password changed successfully">>

\* lines 194-207
reset_password(username, new_password, admin_username) ==
    LET users == load_users
    IN  IF admin_username \notin DOMAIN users
           \/ users[admin_username].role # "admin"
        THEN /\ uret' = <<FALSE, "Admin privileges required">>
             /\ UNCHANGED <<file_exists, users_file>>
        ELSE IF username \notin DOMAIN users
        THEN /\ uret' = <<FALSE, "User not found">>
             /\ UNCHANGED <<file_exists, users_file>>
        ELSE /\ SaveUsers([users EXCEPT ![username].password_hash =
                                            hash_password(new_password)])
             /\ uret' = <<TRUE, "Password reset for " \o username>>

\* lines 227-241: initialize_config writes the default users when there is
\* no file, and returns nothing
initialize_config ==
    /\ IF ~file_exists THEN SaveUsers(build_default_users)
       ELSE UNCHANGED <<file_exists, users_file>>
    /\ uret' = NoUserReturn

\* manage_users.py calls one of the functions
InitializeConfig ==
    /\ ucall' = [fn |-> "initialize_config", username |-> ""]
    /\ initialize_config

AddUser ==
    \E u \in UserNames, p \in Passwords, role \in Roles, fname \in {"", "Zoe"} :
        /\ ucall' = [fn |-> "add_user", username |-> u]
        /\ add_user(u, p, role, fname)

RemoveUser ==
    \E u \in UserNames :
        /\ ucall' = [fn |-> "remove_user", username |-> u]
        /\ remove_user(u)

ChangePassword ==
    \E u \in UserNames, old \in Passwords, new \in Passwords :
        /\ ucall' = [fn |-> "change_password", username |-> u]
        /\ change_password(u, old, new)

ResetPassword ==
    \E u \in UserNames, new \in Passwords, by \in UserNames :
        /\ ucall' = [fn |-> "reset_password", username |-> u]
        /\ reset_password(u, new, by)

(***************************************************************************)
(* Specifications.                                                         *)
(***************************************************************************)
TimeIdle == now = 0 /\ match_day = NoMatchDay
LadderIdle ==
    /\ pc = "idle" /\ fn = "none" /\ query = NoQuery /\ r = NoRecord
    /\ scanned = 0 /\ table = <<>> /\ ladder = <<>>

MissingIdle ==
    /\ fixtures = <<>> /\ results = <<>>
    /\ mpc = "idle" /\ args = NoArgs /\ called_at = 0 /\ today = 0
    /\ target_day = NoDay /\ result_lookup = <<>> /\ all_matches = <<>>
    /\ missing_scores = <<>> /\ out = NoOutput

ResolveIdle ==
    /\ rpc = "idle" /\ team_names = <<>> /\ text = ""
    /\ resolved = NoName /\ fuzzy_used = FALSE /\ fuzzy_score = Null

BoardsIdle ==
    /\ players_summary = << >> /\ staff_summary = << >>
    /\ bcall = NoBoardCall /\ listed = << >> /\ board = NoBoard
    /\ raw_person = NoPerson /\ npc = "idle" /\ person = NoPerson

PeopleIdle ==
    /\ fpc = "idle" /\ people = <<>> /\ fargs = NoFilterArgs
    /\ extracted = NoCriteria /\ filtered = <<>>
    /\ dpc = "idle" /\ dquery = "" /\ dfilters = NoDualFilters
    /\ dout = NoDualOutput
    /\ BoardsIdle

RouterIdle == spc = "idle" /\ asked = "" /\ routed = NoRoute

HandlersIdle == hpc = "idle" /\ hcall = NoCall /\ ret = NoReturn

CompetitionIdle ==
    /\ competition_overview = << >> /\ league_names = << >>
    /\ competition_names = << >>
    /\ cpc = "idle" /\ ccall = NoCall /\ cret = NoCompetitionReturn

\* the module as imported: every name bound from the first snapshot
SessionIdle ==
    /\ wall = 0 /\ session_state = FreshSession /\ last_op = "init"
    /\ time_diff = Null /\ sret = "none" /\ logout_log = <<>>

StoreIdle ==
    /\ file_exists = FALSE /\ users_file = <<>>
    /\ ucall = NoUserCall /\ uret = NoUserReturn

RefreshIdle ==
    /\ disk = [f \in {DataFiles[i] : i \in DOMAIN DataFiles} |-> 0]
    /\ reload_at = 0 /\ reloads = 0 /\ qpc = "idle" /\ qcall = NoQueryCall
    /\ seen = << >> /\ walk = NoWalk
    /\ loaded = [n \in ReloadNames |-> {0}]
    /\ entries = [n \in IndexNames |-> IndexSize]

\* every part but those named starts idle
IdleExcept(parts) ==
    /\ "time" \in parts \/ TimeIdle
    /\ "ladder" \in parts \/ LadderIdle
    /\ "missing" \in parts \/ MissingIdle
    /\ "resolve" \in parts \/ ResolveIdle
    /\ "people" \in parts \/ PeopleIdle
    /\ "router" \in parts \/ RouterIdle
    /\ "handlers" \in parts \/ HandlersIdle
    /\ "competition" \in parts \/ CompetitionIdle
    /\ "refresh" \in parts \/ RefreshIdle
    /\ "session" \in parts \/ SessionIdle
    /\ "store" \in parts \/ StoreIdle
    /\ USER_CONFIG = USER_CONFIG_at_import

\* the clock and the reporting day
InitTime == TimeIdle /\ IdleExcept({"time"})
NextTime ==
    \/ Tick /\ UNCHANGED notTime
    \/ CallGetMatchDayDate /\ UNCHANGED notTime
SpecTime == InitTime /\ [][NextTime]_vars

\* the two standings functions
InitLadder == LadderIdle /\ IdleExcept({"ladder"})
NextLadder ==
    \/ CallToolLadder /\ UNCHANGED notLadder
    \/ ToolLadderLoop /\ UNCHANGED notLadder
    \/ ToolLadderReturn /\ UNCHANGED notLadder
    \/ CallComputeLadder /\ UNCHANGED notLadder
    \/ ComputeLadderLoop /\ UNCHANGED notLadder
    \/ ComputeLadderReturn /\ UNCHANGED notLadder
SpecLadder == InitLadder /\ [][NextLadder]_vars

\* the missing-score handler over a snapshot loaded at start-up
InitMissing ==
    /\ now \in NowChoices /\ match_day = NoMatchDay
    /\ IdleExcept({"time", "missing"})
    /\ \E k \in 0..MaxFixtures :
           \E sh \in [1..k -> FixtureRecords(0)] :
               fixtures = [i \in 1..k |-> [sh[i] EXCEPT !.match_hash_id = i]]
    /\ \E n \in 0..MaxResultRecords : results \in [1..n -> ResultRecords]
    /\ mpc = "idle" /\ args = NoArgs /\ called_at = 0 /\ today = 0
    /\ target_day = NoDay /\ result_lookup = <<>> /\ all_matches = <<>>
    /\ missing_scores = <<>> /\ out = NoOutput
NextMissing ==
    \/ CallMissingScores /\ UNCHANGED notMissing
    \/ CallMissingScoresAgain /\ UNCHANGED notMissing
    \/ Later /\ UNCHANGED notMissing
SpecMissing == InitMissing /\ [][NextMissing]_vars

\* the missing-score handler over the snapshots that try its date window
InitWindow ==
    /\ now \in WindowNows /\ match_day = NoMatchDay
    /\ IdleExcept({"time", "missing"})
    /\ \E k \in 0..MaxFixtures :
           \E sh \in [1..k -> WindowFixtures(0)] :
               fixtures = [i \in 1..k |-> [sh[i] EXCEPT !.match_hash_id = i]]
    /\ \E n \in 0..MaxResultRecords : results \in [1..n -> WindowResults]
    /\ mpc = "idle" /\ args = NoArgs /\ called_at = 0 /\ today = 0
    /\ target_day = NoDay /\ result_lookup = <<>> /\ all_matches = <<>>
    /\ missing_scores = <<>> /\ out = NoOutput
NextWindow ==
    \/ CallMissingScoresWindow /\ UNCHANGED notMissing
    \/ CallMissingScoresAgain /\ UNCHANGED notMissing
SpecWindow == InitWindow /\ [][NextWindow]_vars

\* the missing-score handler over snapshots with a match of every league
InitLeagues ==
    /\ now \in NowChoices /\ match_day = NoMatchDay
    /\ IdleExcept({"time", "missing"})
    /\ \E k \in 0..MaxFixtures :
           \E sh \in [1..k -> LeagueFixtures(0)] :
               fixtures = [i \in 1..k |-> [sh[i] EXCEPT !.match_hash_id = i]]
    /\ \E n \in 0..MaxResultRecords : results \in [1..n -> LeagueResults]
    /\ mpc = "idle" /\ args = NoArgs /\ called_at = 0 /\ today = 0
    /\ target_day = NoDay /\ result_lookup = <<>> /\ all_matches = <<>>
    /\ missing_scores = <<>> /\ out = NoOutput
NextLeagues ==
    \/ CallMissingScoresLeagues /\ UNCHANGED notMissing
    \/ CallMissingScoresAgain /\ UNCHANGED notMissing
SpecLeagues == InitLeagues /\ [][NextLeagues]_vars

\* the resolver over the team names of a snapshot
InitResolve ==
    /\ IdleExcept({"resolve"})
    /\ rpc = "idle" /\ text = "" /\ resolved = NoName /\ fuzzy_used = FALSE
    /\ fuzzy_score = Null
    /\ \E S \in SUBSET DOMAIN KnownTeams : team_names = TeamNamesOf(S)
NextResolve ==
    \/ CallNormalizeTeam /\ UNCHANGED notResolve
SpecResolve == InitResolve /\ [][NextResolve]_vars

\* fuzzy_team over the team names of a snapshot
InitFuzzy ==
    /\ IdleExcept({"resolve"})
    /\ rpc = "idle" /\ text = "" /\ resolved = NoName /\ fuzzy_used = FALSE
    /\ fuzzy_score = Null
    /\ \E S \in SUBSET DOMAIN FuzzyTeamList : team_names = SubList(FuzzyTeamList, S)
NextFuzzy ==
    \/ CallFuzzyTeam /\ UNCHANGED notResolve
SpecFuzzy == InitFuzzy /\ [][NextFuzzy]_vars

\* the handlers of people over the people and team names of a snapshot
InitPeople ==
    /\ IdleExcept({"resolve", "people"})
    /\ rpc = "idle" /\ text = "" /\ resolved = NoName /\ fuzzy_used = FALSE
    /\ fuzzy_score = Null
    /\ \E S \in SUBSET DOMAIN KnownTeams : team_names = TeamNamesOf(S)
    /\ \E S \in SUBSET DOMAIN PersonPool :
           /\ Cardinality(S) <= MaxPeople
           /\ people = PeopleOf(S)
    /\ fpc = "idle" /\ fargs = NoFilterArgs
    /\ extracted = NoCriteria /\ filtered = <<>>
    /\ dpc = "idle" /\ dquery = "" /\ dfilters = NoDualFilters
    /\ dout = NoDualOutput
    /\ BoardsIdle
NextPeople ==
    \/ CallFilterPlayers /\ UNCHANGED notPeople
SpecPeople == InitPeople /\ [][NextPeople]_vars

\* the leader boards over the players and staff of a snapshot
InitBoards ==
    /\ IdleExcept({"resolve", "people"})
    /\ rpc = "idle" /\ text = "" /\ resolved = NoName /\ fuzzy_used = FALSE
    /\ fuzzy_score = Null
    /\ \E S \in SUBSET DOMAIN BoardPlayers :
           \/ Cardinality(S) <= MaxBoardPlayers /\ players_summary = SubList(BoardPlayers, S)
           \/ S = {} /\ players_summary = Crowd(MaxCrowd)
    /\ \E S \in SUBSET DOMAIN BoardStaff : staff_summary = SubList(BoardStaff, S)
    /\ team_names = TeamNamesFrom(players_summary \o staff_summary)
    /\ bcall = NoBoardCall /\ listed = << >> /\ board = NoBoard
    /\ raw_person = NoPerson /\ npc = "idle" /\ person = NoPerson
    /\ fpc = "idle" /\ people = << >> /\ fargs = NoFilterArgs
    /\ extracted = NoCriteria /\ filtered = <<>>
    /\ dpc = "idle" /\ dquery = "" /\ dfilters = NoDualFilters
    /\ dout = NoDualOutput
NextBoards ==
    \/ CallTopScorers /\ UNCHANGED notPeople
    \/ CallYellowCards /\ UNCHANGED notPeople
    \/ CallRedCards /\ UNCHANGED notPeople
SpecBoards == InitBoards /\ [][NextBoards]_vars

\* _normalize_person over the persons of the data files
InitNormalize ==
    /\ IdleExcept({"people"})
    /\ \E h \in RawHeaders, n \in 0..MaxMatches :
         \E ms \in [1..n -> 1..Len(MatchEntries)] :
            raw_person = IF h.first_name = "Fay" THEN h
                         ELSE SetKey(h, "matches", [i \in 1..n |-> MatchEntries[ms[i]]])
    /\ npc = "idle" /\ person = NoPerson
    /\ players_summary = << >> /\ staff_summary = << >>
    /\ bcall = NoBoardCall /\ listed = << >> /\ board = NoBoard
    /\ fpc = "idle" /\ people = << >> /\ fargs = NoFilterArgs
    /\ extracted = NoCriteria /\ filtered = <<>>
    /\ dpc = "idle" /\ dquery = "" /\ dfilters = NoDualFilters
    /\ dout = NoDualOutput
NextNormalize ==
    \/ CallNormalizePerson /\ UNCHANGED notPeople
SpecNormalize == InitNormalize /\ [][NextNormalize]_vars

\* tool_dual_registration over the same snapshots
NextDual ==
    \/ CallDualRegistration /\ UNCHANGED notPeople
SpecDual == InitPeople /\ [][NextDual]_vars

\* the router over the team names of a snapshot
InitRouter ==
    /\ IdleExcept({"resolve", "router"})
    /\ rpc = "idle" /\ text = "" /\ resolved = NoName /\ fuzzy_used = FALSE
    /\ fuzzy_score = Null
    /\ \E S \in SUBSET DOMAIN KnownTeams : team_names = TeamNamesOf(S)
    /\ RouterIdle
NextRouter ==
    \/ CallProcess /\ UNCHANGED notRouter
    \/ UpdateUserConfig /\ UNCHANGED notRouter
    \/ ReloadUserConfig /\ UNCHANGED notRouter
SpecRouter == InitRouter /\ [][NextRouter]_vars

\* the handlers of records over a snapshot loaded at start-up
InitHandlers ==
    /\ now \in NowChoices /\ match_day = NoMatchDay
    /\ IdleExcept({"time", "missing", "resolve", "handlers"})
    /\ \E k \in 0..MaxDayFixtures : fixtures \in [1..k -> DayFixtures]
    /\ \E n \in 0..MaxDayResults : results \in [1..n -> DayResults]
    /\ mpc = "idle" /\ args = NoArgs /\ called_at = 0 /\ today = 0
    /\ target_day = NoDay /\ result_lookup = <<>> /\ all_matches = <<>>
    /\ missing_scores = <<>> /\ out = NoOutput
    /\ rpc = "idle" /\ text = "" /\ resolved = NoName /\ fuzzy_used = FALSE
    /\ fuzzy_score = Null
    /\ team_names \in {<<>>, KnownTeams}
    /\ HandlersIdle
\* tool_form over the results of a season
InitForm ==
    /\ now = 0 /\ match_day = NoMatchDay
    /\ IdleExcept({"time", "missing", "resolve", "handlers"})
    /\ fixtures = << >>
    /\ \E n \in 0..MaxFormResults :
         \E kinds \in [1..n -> FormKinds] :
            results = [i \in 1..n |-> FormResultAt(i, kinds[i])]
    /\ mpc = "idle" /\ args = NoArgs /\ called_at = 0 /\ today = 0
    /\ target_day = NoDay /\ result_lookup = <<>> /\ all_matches = <<>>
    /\ missing_scores = <<>> /\ out = NoOutput
    /\ rpc = "idle" /\ text = "" /\ resolved = NoName /\ fuzzy_used = FALSE
    /\ fuzzy_score = Null
    /\ team_names = KnownTeams
    /\ HandlersIdle
NextForm ==
    \/ CallToolForm /\ UNCHANGED notHandlers
SpecForm == InitForm /\ [][NextForm]_vars

NextHandlers ==
    \/ CallToolForm /\ UNCHANGED notHandlers
    \/ CallToolMatches /\ UNCHANGED notHandlers
    \/ CallToolTodaysResults /\ UNCHANGED notHandlers
SpecHandlers == InitHandlers /\ [][NextHandlers]_vars

\* the handlers of a competition over a snapshot loaded at start-up
InitCompetition ==
    /\ IdleExcept({"competition"})
    /\ \E S \in SUBSET {KnownCompetitions[i] : i \in DOMAIN KnownCompetitions} :
           competition_overview = [comp \in S |-> OverviewOf(comp)]
    /\ league_names \in LeagueNameLists
    /\ competition_names \in CompetitionNameLists
    /\ cpc = "idle" /\ ccall = NoCall /\ cret = NoCompetitionReturn
NextCompetition ==
    \/ CallCompetitionOverview /\ UNCHANGED notCompetition
    \/ CallLadderHead /\ UNCHANGED notCompetition
SpecCompetition == InitCompetition /\ [][NextCompetition]_vars

\* refreshes of the data beside a query of another session
InitRefresh == IdleExcept({})
NextRefresh ==
    \/ WriteDataset /\ UNCHANGED notRefresh
    \/ StartReload /\ UNCHANGED notRefresh
    \/ ReloadStep /\ UNCHANGED notRefresh
    \/ QueryStart /\ UNCHANGED notRefresh
    \/ QueryRead /\ UNCHANGED notRefresh
    \/ QueryWalkEnd /\ UNCHANGED notRefresh
    \/ QueryReturn /\ UNCHANGED notRefresh
SpecRefresh == InitRefresh /\ [][NextRefresh]_vars

\* one browser session: logins, waits and the timeout check of main()
InitSession ==
    /\ IdleExcept({"session"})
    /\ wall = 0 /\ session_state = FreshSession /\ last_op = "init"
    /\ time_diff = Null /\ sret = "none" /\ logout_log = <<>>
NextSession ==
    \/ Wait /\ UNCHANGED notSession
    \/ Login /\ UNCHANGED notSession
    \/ CheckSessionTimeout /\ UNCHANGED notSession
    \/ LogoutButton /\ UNCHANGED notSession
    \/ RefreshDataButton /\ UNCHANGED notSession
SpecSession == InitSession /\ [][NextSession]_vars

\* the user store: no file yet, or a file that holds the administrator
InitStore ==
    /\ IdleExcept({"store"})
    /\ \/ file_exists = FALSE /\ users_file = <<>>
       \/ /\ file_exists = TRUE
          /\ \E S \in SUBSET {"coach", "parent"} :
                 users_file = [u \in S \cup {"admin"} |-> build_default_users[u]]
    /\ ucall = NoUserCall /\ uret = NoUserReturn
NextStore ==
    \/ AddUser /\ UNCHANGED notStore
    \/ RemoveUser /\ UNCHANGED notStore
    \/ ChangePassword /\ UNCHANGED notStore
    \/ ResetPassword /\ UNCHANGED notStore
    \/ InitializeConfig /\ UNCHANGED notStore
SpecStore == InitStore /\ [][NextStore]_vars

(***************************************************************************)
(* Standings: the claims.                                                  *)
(***************************************************************************)
\* the rows of either table under common names
LadderView(f, tbl) ==
    [i \in DOMAIN tbl |->
        IF f = "tool_ladder"
        THEN [name |-> tbl[i].team, played |-> tbl[i].P, won |-> tbl[i].W,
              drawn |-> tbl[i].D, lost |-> tbl[i].L, goals_for |-> tbl[i].GF,
              goals_against |-> tbl[i].GA, points |-> tbl[i].PTS]
        ELSE [name |-> tbl[i].key, played |-> tbl[i].played, won |-> tbl[i].wins,
              drawn |-> tbl[i].draws, lost |-> tbl[i].losses,
              goals_for |-> tbl[i].gf, goals_against |-> tbl[i].ga,
              points |-> tbl[i].points]]

RowNames == TeamNames \cup {""}

ZeroStats(n) ==
    [name |-> n, played |-> 0, won |-> 0, drawn |-> 0, lost |-> 0,
     goals_for |-> 0, goals_against |-> 0, points |-> 0]

\* the row of a team, all zero when the table has none
StatsOf(rows, n) ==
    IF \E i \in DOMAIN rows : rows[i].name = n
    THEN rows[CHOOSE i \in DOMAIN rows : rows[i].name = n]
    ELSE ZeroStats(n)

RECURSIVE SumField(_, _, _)
\* the sum of field f over the rows from i on
SumField(rows, f, i) ==
    IF i > Len(rows) THEN 0 ELSE rows[i][f] + SumField(rows, f, i + 1)

\* what one match h hs-as a adds to the row of team n
MatchDelta(n, h, a, hs, as) ==
    LET mine == IF n = h THEN hs ELSE as
        theirs == IF n = h THEN as ELSE hs
    IN  IF n # h /\ n # a THEN ZeroStats(n)
        ELSE [name |-> n, played |-> 1,
              won |-> IF mine > theirs THEN 1 ELSE 0,
              drawn |-> IF mine = theirs THEN 1 ELSE 0,
              lost |-> IF mine < theirs THEN 1 ELSE 0,
              goals_for |-> mine, goals_against |-> theirs,
              points |-> IF mine > theirs THEN 3 ELSE IF mine = theirs THEN 1 ELSE 0]

PlusStats(x, d) ==
    [name |-> x.name, played |-> x.played + d.played, won |-> x.won + d.won,
     drawn |-> x.drawn + d.drawn, lost |-> x.lost + d.lost,
     goals_for |-> x.goals_for + d.goals_for,
     goals_against |-> x.goals_against + d.goals_against,
     points |-> x.points + d.points]

\* new is old with the match h hs-as a counted once
CountedOnce(old, new, h, a, hs, as) ==
    /\ { new[i].name : i \in DOMAIN new } = { old[i].name : i \in DOMAIN old } \cup {h, a}
    /\ \A n \in RowNames :
        StatsOf(new, n) = PlusStats(StatsOf(old, n), MatchDelta(n, h, a, hs, as))

IsScore(s) == s # NoKey /\ s # Null

\* C2, every row: points = 3*won + drawn, played = won + drawn + lost, and the
\* goals for of all rows together are the goals against of all rows together
RowsConsistent(rows) ==
    /\ \A i \in DOMAIN rows :
        /\ rows[i].points = 3 * rows[i].won + rows[i].drawn
        /\ rows[i].played = rows[i].won + rows[i].drawn + rows[i].lost
    /\ SumField(rows, "goals_for", 1) = SumField(rows, "goals_against", 1)

\* C2, every record read: it is not counted, or it is counted once as a match of
\* two sides (the record's teams and scores where it has them): +3/+0 or +1/+1
\* points, +1 played each, each side's goals for it and against the other; and
\* the rows are consistent after it (they are before the first: there are none)
LadderMatchDelta ==
    scanned' = scanned + 1 =>
        \/ table' = table
        \/ LET old == LadderView(fn, table)
               new == LadderView(fn', table')
               homes == IF r'.home_team_name # NoName
                        THEN {r'.home_team_name} ELSE RowNames
               aways == IF r'.away_team_name # NoName
                        THEN {r'.away_team_name} ELSE RowNames
               hss == IF IsScore(r'.home_score) THEN {r'.home_score} ELSE 0..1
               ass == IF IsScore(r'.away_score) THEN {r'.away_score} ELSE 0..1
           IN  /\ \E h \in homes, a \in aways, hs \in hss, as \in ass :
                    h # a /\ CountedOnce(old, new, h, a, hs, as)
               /\ RowsConsistent(new)

\* C1: the table tool_ladder returns is in the order of the five keys: points
\* descending, goal difference descending, goals for descending, goals against
\* ascending, team name ascending without regard to case
FiveKeyBefore(x, y) ==
    \/ x.PTS > y.PTS
    \/ x.PTS = y.PTS /\ x.GD > y.GD
    \/ x.PTS = y.PTS /\ x.GD = y.GD /\ x.GF > y.GF
    \/ x.PTS = y.PTS /\ x.GD = y.GD /\ x.GF = y.GF /\ x.GA < y.GA
    \/ /\ x.PTS = y.PTS /\ x.GD = y.GD /\ x.GF = y.GF /\ x.GA = y.GA
       /\ StrRank(Lower(x.Team)) < StrRank(Lower(y.Team))

C1_LadderFiveKeyOrder ==
    (pc = "done" /\ fn = "tool_ladder") =>
        \A i \in DOMAIN ladder, j \in DOMAIN ladder :
            i < j => ~FiveKeyBefore(ladder[j], ladder[i])

\* C2: in tool_ladder and in compute_ladder_from_results every counted match
\* changes the table by exactly 3/0 or 1/1 points, one played each and the goals
\* of each side, so that every row has points = 3*won + drawn and
\* played = won + drawn + lost and goals for and against sum to the same
C2_LadderScoring == [][LadderMatchDelta]_vars

\* C2 witness: tool_ladder has counted a win and a draw of the same team
C2_Witness ==
    /\ fn = "tool_ladder" /\ scanned = 2
    /\ \E i \in DOMAIN table : table[i].W = 1 /\ table[i].D = 1 /\ table[i].PTS = 4

\* C3: a record whose status is not complete, or that has no home or away
\* score, leaves the table of tool_ladder as it was
C3_LadderOnlyCompleted ==
    [][(/\ fn' = "tool_ladder" /\ scanned' = scanned + 1
        /\ \/ r'.status # "complete"
           \/ ~IsScore(r'.home_score)
           \/ ~IsScore(r'.away_score))
       => table' = table]_vars

\* C4: a record that lacks the home or the away team (a bye) leaves the table of
\* tool_ladder as it was, and the table never has a row with an empty team name
C4_LadderNoByeRow ==
    [][(/\ fn' = "tool_ladder" /\ scanned' = scanned + 1
        /\ (r'.home_team_name = NoName \/ r'.away_team_name = NoName))
       => (table' = table /\ \A i \in DOMAIN table' : table'[i].team # "")]_vars

(***************************************************************************)
(* Reporting day: the claims.                                              *)
(***************************************************************************)
\* C10: the reporting day is a Sunday, 0 to 6 days before the local date of the
\* call and never after it, and it is the local date itself on a Sunday
C10_ReportingDay ==
    match_day.at >= 0 =>
        LET day0 == LocalDate(match_day.at)
        IN  /\ weekday(match_day.day) = 6
            /\ match_day.day <= day0
            /\ day0 - match_day.day <= 6
            /\ weekday(day0) = 6 => match_day.day = day0

\* C10 witness: asked on a UTC Saturday that is already Sunday in Melbourne
C10_Witness ==
    /\ match_day.at >= 0
    /\ weekday(match_day.at \div 24) = 5
    /\ weekday(LocalDate(match_day.at)) = 6
    /\ match_day.day = LocalDate(match_day.at)

(***************************************************************************)
(* Missing scores: the claims.                                             *)
(***************************************************************************)
\* the handler has returned at least once
Returned == mpc \in {"done", "again"}

\* match i of the snapshot has a row in missing_scores
Listed(i) ==
    \E j \in DOMAIN missing_scores :
        missing_scores[j].match_hash_id = fixtures[i].match_hash_id

\* the row of match i
RowOf(i) ==
    missing_scores[CHOOSE j \in DOMAIN missing_scores :
                       missing_scores[j].match_hash_id = fixtures[i].match_hash_id]

\* a hash id that is missing (absent or null) or empty
NoHashId(m, k) == k \notin DOMAIN m \/ m[k] = NoName \/ m[k] = ""

\* the table returned has a row for each row of missing_scores, and no other
OutputIsRows ==
    /\ out.type = "table" <=> missing_scores # <<>>
    /\ out.type = "table" =>
           /\ out.count = Len(missing_scores)
           /\ DOMAIN out.data = DOMAIN missing_scores
           /\ \A j \in DOMAIN missing_scores :
                  /\ out.data[j].Venue = missing_scores[j].venue
                  /\ out.data[j].Time = missing_scores[j].time

\* C5: in every mode and for every query, no match whose merged record has a
\* missing or empty home_team_hash_id or away_team_hash_id is in the output
C5_MissingNoBye ==
    Returned =>
        /\ OutputIsRows
        /\ \A i \in DOMAIN all_matches :
               (\/ NoHashId(all_matches[i], "home_team_hash_id")
                \/ NoHashId(all_matches[i], "away_team_hash_id")) => ~Listed(i)

\* a bye played in the window of the default mode, without a result, is left
\* out while the other match of the snapshot is listed
C5_Witness ==
    /\ mpc = "done"
    /\ ~args.today_only /\ ~args.last_week /\ args.round_filter = Null
    /\ Len(missing_scores) = 1
    /\ \E i \in DOMAIN all_matches :
           /\ all_matches[i].away_team_hash_id = NoName
           /\ all_matches[i].source = "fixture_only"
           /\ LocalDate(all_matches[i].date) <= today
           /\ ~Listed(i)

\* C6: in every mode, round_filter included, no match whose merged local date
\* is after today is in the output, whatever its status and scores
C6_MissingNoFuture ==
    Returned =>
        /\ \A i \in DOMAIN all_matches :
               LocalDate(all_matches[i].date) > today => ~Listed(i)
        /\ \A j \in DOMAIN missing_scores : missing_scores[j].date <= today

\* a fixture of round 2, to be played next Sunday, asked for by its round:
\* it passes every filter, has no score, and is not listed
C6_Witness ==
    /\ mpc = "done"
    /\ args.round_filter = 2
    /\ \E i \in DOMAIN all_matches :
           /\ LocalDate(all_matches[i].date) > today
           /\ PassesFilters(args, target_day, today, all_matches[i])
           /\ all_matches[i].status # "complete"
           /\ "home_score" \notin DOMAIN all_matches[i]
           /\ ~Listed(i)

\* match i needs a score: its local date is on or before today, and its
\* status is not 'complete' or one of its scores is absent
DueWithoutScore(i) ==
    /\ LocalDate(all_matches[i].date) <= today
    /\ \/ Get(all_matches[i], "status", "") # "complete"
       \/ Get(all_matches[i], "home_score", Null) = Null
       \/ Get(all_matches[i], "away_score", Null) = Null

\* C7: whenever tool_missing_scores has been called, a match that passes the
\* date-window, bye, league, round and query filters is listed in what the
\* call gives back if and only if its local date is on or before today and
\* its status is not 'complete' or one of its scores is absent; stated of
\* the matches that have both their team names
C7_MissingIff ==
    mpc # "idle" =>
        \A i \in DOMAIN all_matches :
            (/\ ~SliceRaises(all_matches[i])
             /\ PassesFilters(args, target_day, today, all_matches[i])) =>
                ((out.type = "table" /\ Listed(i)) <=> DueWithoutScore(i))

\* in the calls that return, a match that passes the filters is listed if
\* and only if it needs a score
MissingIffWhenReturned ==
    Returned =>
        \A i \in DOMAIN all_matches :
            PassesFilters(args, target_day, today, all_matches[i]) =>
                (Listed(i) <=> DueWithoutScore(i))

\* a call raised at a match with a null team name, and another match of the
\* snapshot, with both its names, passes every filter and needs a score
DueMatchLostToRaise ==
    /\ mpc = "raised" /\ out = Raised("TypeError")
    /\ \E i \in DOMAIN all_matches :
           /\ ~SliceRaises(all_matches[i])
           /\ PassesFilters(args, target_day, today, all_matches[i])
           /\ DueWithoutScore(i)

\* the last result of the snapshot with the hash id of fixture i, 0 without one
ResultOf(i) ==
    LET same == { j \in DOMAIN results :
                    results[j].match_hash_id = fixtures[i].match_hash_id }
    IN  IF same = {} THEN 0 ELSE CHOOSE j \in same : \A k \in same : k <= j

\* what the merged record of fixture i holds at key k: the result's value where
\* the result supplies the key, the fixture's otherwise
Supplied(i, k) ==
    IF ResultOf(i) # 0 /\ k \in DOMAIN results[ResultOf(i)]
    THEN results[ResultOf(i)][k]
    ELSE fixtures[i][k]

\* C8: a match in both fixtures and results, joined by match_id, is evaluated
\* from one merged record where the result's fields come first and the
\* fixture's fill the rest; with unique fixture ids no id is listed twice
C8_MissingMerge ==
    Returned =>
        /\ DOMAIN all_matches = DOMAIN fixtures
        /\ \A i \in DOMAIN fixtures :
               /\ \A k \in DOMAIN fixtures[i] : all_matches[i][k] = Supplied(i, k)
               /\ ResultOf(i) # 0 =>
                      \A k \in DOMAIN results[ResultOf(i)] :
                          all_matches[i][k] = Supplied(i, k)
               /\ Listed(i) =>
                      /\ RowOf(i).datetime_sort = Supplied(i, "date")
                      /\ RowOf(i).venue = Supplied(i, "ground_name")
                      /\ RowOf(i).round = Supplied(i, "round")
                      /\ RowOf(i).status = Supplied(i, "status")
                      /\ RowOf(i).source =
                             (IF ResultOf(i) # 0 THEN "result" ELSE "fixture_only")
        /\ \A j1, j2 \in DOMAIN missing_scores :
               missing_scores[j1].match_hash_id = missing_scores[j2].match_hash_id
                   => j1 = j2

\* a fixture of the first Sunday whose result puts it off to the second: on
\* that Sunday it is listed once, with the date and ground of the result and
\* the round of the fixture, next to a fixture without a result
C8_Witness ==
    /\ mpc = "done"
    /\ Len(missing_scores) = 2
    /\ \E i \in DOMAIN fixtures :
           /\ ResultOf(i) # 0
           /\ fixtures[i].date = FirstSunday
           /\ all_matches[i].date = SecondSunday
           /\ Listed(i)
           /\ RowOf(i).venue = "Reserve"
           /\ RowOf(i).round = "Round 1"
           /\ RowOf(i).status = "postponed"

\* a second call with the arguments, the snapshot and the clock of the first
SameCallAgain == mpc = "done" /\ mpc' = "again" /\ called_at' = called_at

\* C9: the handler called twice with the same arguments on the same snapshot
\* at the same time returns the same output, and no call changes the snapshot
C9_MissingIdempotent ==
    [][/\ SameCallAgain => out' = out /\ missing_scores' = missing_scores
       /\ fixtures' = fixtures
       /\ results' = results]_vars

\* a second call on Wednesday, the clock not moved, returning two rows
C9_Witness ==
    /\ mpc = "again"
    /\ now = 9 * 24 + 2
    /\ called_at = now
    /\ out.type = "table"
    /\ out.count = 2
    /\ Len(results) = 1

(***************************************************************************)
(* Resolver: the claims.                                                   *)
(***************************************************************************)
\* C11: a text with an alias and an age group, whose composite
\* '<canonical club> <age group>' is a known team, resolves to that team name
\* as team_names spells it, and fuzzy_find is not asked
C11_ResolveComposite ==
    (/\ rpc = "done"
     /\ get_canonical_club_name(Lower(text)) # NoName
     /\ extract_age_group(Lower(text)) # NoAge
     /\ \E i \in DOMAIN team_names :
            team_names[i] = Composite(get_canonical_club_name(Lower(text)),
                                      extract_age_group(Lower(text))))
        => /\ ~fuzzy_used
           /\ resolved = Composite(get_canonical_club_name(Lower(text)),
                                   extract_age_group(Lower(text)))

(***************************************************************************)
(* People: the claims.                                                     *)
(***************************************************************************)
\* the registrations of a person: every entry of teams, or team_name when
\* teams is empty
Registrations(p) ==
    IF p.teams # << >> THEN {p.teams[k] : k \in DOMAIN p.teams}
    ELSE IF p.team_name # "" THEN {p.team_name}
    ELSE {}

\* the one criterion chosen by specificity; NoName for no team filter
ChosenCriterion(e) ==
    CASE e.team_name # NoName -> e.team_name
      [] e.team_name = NoName /\ e.base_club # NoName /\ e.age_group # NoAge ->
             Composite(e.base_club, e.age_group)
      [] e.team_name = NoName /\ e.base_club # NoName /\ e.age_group = NoAge ->
             e.base_club
      [] e.team_name = NoName /\ e.base_club = NoName /\ e.age_group # NoAge ->
             e.age_group
      [] OTHER -> NoName

\* a registration satisfies the criterion: it holds it, whatever the case
Satisfies(t, c) == Contains(Lower(c), Lower(t))

SomeRegistrationSatisfies(p) ==
    \/ ChosenCriterion(extracted) = NoName
    \/ \E t \in Registrations(p) : Satisfies(t, ChosenCriterion(extracted))

Kept(p) == \E j \in DOMAIN filtered : filtered[j] = p

\* C12 as stated: after filter_players_by_criteria, a person of the list is
\* kept if and only if one of the person's registrations satisfies the one
\* criterion chosen by precedence (team, club and age, club, age, none).
C12_FilterKeptIffRegistration ==
    fpc = "done" =>
        \A i \in DOMAIN people :
            Kept(people[i]) <=> SomeRegistrationSatisfies(people[i])

\* C12 amended: among the people whose role fits include_non_players
\* (non-players when it is set, players when it is not), a person is kept
\* if and only if one of the person's registrations satisfies the one
\* criterion chosen by precedence; the others are never kept.
C12_FilterByRoleThenCriterion ==
    fpc = "done" =>
        \A i \in DOMAIN people :
            Kept(people[i]) <=>
                /\ RoleKept(people[i], fargs.include_non_players)
                /\ SomeRegistrationSatisfies(people[i])

\* a club and an age group were extracted and no team; a person of the right
\* role is dropped whose registrations hold the club in one and the age
\* group in another, and another person is kept
C12_Witness ==
    /\ fpc = "done"
    /\ extracted.team_name = NoName
    /\ extracted.base_club # NoName
    /\ extracted.age_group # NoAge
    /\ \E i, j \in DOMAIN people :
           /\ Kept(people[j])
           /\ ~Kept(people[i])
           /\ RoleKept(people[i], fargs.include_non_players)
           /\ \E t \in Registrations(people[i]) : Satisfies(t, extracted.base_club)
           /\ \E t \in Registrations(people[i]) : Satisfies(t, extracted.age_group)

\* two or more registrations: two or more teams, or two or more leagues
DualRegistered(p) == Len(p.teams) >= 2 \/ Len(p.leagues) >= 2

\* the player is in the output of tool_dual_registration
Flagged(p) == \E i \in DOMAIN dout.data : dout.data[i].Player = p.name

\* C14: with no filter the players tool_dual_registration lists are exactly
\* those with two or more teams or two or more leagues, and under any filter
\* no other player is listed, so a player with one registration never is.
C14_DualIffTwoRegistrations ==
    dpc = "done" =>
        \A i \in DOMAIN people :
            /\ Flagged(people[i]) => DualRegistered(people[i])
            /\ dquery = "" => (DualRegistered(people[i]) => Flagged(people[i]))

\* with no filter, a player of two leagues and one team name is listed next
\* to a player of one team and one league who is not
C14_Witness ==
    /\ dpc = "done" /\ dquery = ""
    /\ \E i, j \in DOMAIN people :
           /\ Len(people[i].teams) < 2 /\ Len(people[i].leagues) >= 2
           /\ Flagged(people[i])
           /\ Len(people[j].teams) = 1 /\ Len(people[j].leagues) = 1
           /\ ~Flagged(people[j])

(***************************************************************************)
(* Router: the claims.                                                     *)
(***************************************************************************)
\* whether the trigger phrases of the rules of a place of the canonical
\* order occur in the lower-cased query; place 11 is the default
Triggered(place, q) ==
    CASE place = 1 -> AnyIn(dual_keywords, q)
      [] place = 2 -> AnyIn(missing_keywords \cup missing_today_keywords, q)
      [] place = 3 -> AnyIn(todays_results_keywords
                            \cup top_scorers_today_keywords
                            \cup teams_lost_keywords, q)
      [] place = 4 -> /\ AnyIn(comp_overview_keywords \cup competition_codes, q)
                      /\ AnyIn(overview_words, q)
      [] place = 5 -> AnyIn(fixture_keywords, q)
      [] place = 6 -> AnyIn({"yellow card", "yellows", "red card", "reds"}, q)
      [] place = 7 -> AnyIn(non_player_keywords, q)
      [] place = 8 -> AnyIn(top_scorer_keywords, q)
      [] place = 9 -> AnyIn(stats_keywords, q)
      [] place = 10 -> AnyIn(ladder_keywords
                             \cup {"lineup", "starting", " vs ", " v ", "form"}, q)
      [] place = 11 -> TRUE

\* the handlers of the rules of a place
HandlersAt(place) ==
    CASE place = 1 -> {"tool_dual_registration"}
      [] place = 2 -> {"tool_missing_scores"}
      [] place = 3 -> {"tool_todays_results", "tool_top_scorers_today",
                       "tool_teams_lost_today"}
      [] place = 4 -> {"tool_competition_overview"}
      [] place = 5 -> {"tool_fixtures"}
      [] place = 6 -> {"tool_yellow_cards", "tool_red_cards"}
      [] place = 7 -> {"tool_non_players"}
      [] place = 8 -> {"tool_top_scorers"}
      [] place = 9 -> {"tool_team_stats", "tool_players"}
      [] place = 10 -> {"tool_ladder", "tool_lineups", "tool_match_centre",
                        "tool_form"}
      [] place = 11 -> {"tool_form", "tool_matches"}

FirstPlace(q) == CHOOSE n \in 1..11 : Triggered(n, q) /\ \A k \in 1..(n - 1) : ~Triggered(k, q)

\* C13: the handler process calls is a handler of the first place of the
\* canonical order (dual registration, missing scores, today's results,
\* scorers and losers, competition overview, fixtures, cards, staff, top
\* scorers, stats, ladder and the like, default) whose trigger phrases occur
\* in the lower-cased query.
C13_RouterPriority ==
    spc = "done" => routed.handler \in HandlersAt(FirstPlace(Lower(asked)))

(***************************************************************************)
(* Missing scores: the date window.                                        *)
(***************************************************************************)
\* C19: a listed match is of the window of the mode.  With round_filter set
\* its round number is round_filter, whatever its date; else with today_only
\* its local date is the reporting day; else with last_week it is the
\* reporting day minus 7; else it is from today - 14 to today.
C19_MissingWindow ==
    Returned =>
        \A i \in DOMAIN all_matches :
            Listed(i) =>
                LET d == LocalDate(all_matches[i].date)
                    reporting_day == get_match_day_date(called_at)
                IN  IF args.round_filter # Null
                    THEN RoundNumber(all_matches[i].round) = args.round_filter
                    ELSE IF args.today_only THEN d = reporting_day
                    ELSE IF args.last_week THEN d = reporting_day - 7
                    ELSE today - 14 <= d /\ d <= today

\* on the third Sunday, in the default mode, the match of 14 days before is
\* listed and the match of 15 days before is not
C19_Witness ==
    /\ mpc = "done"
    /\ ~args.today_only /\ ~args.last_week /\ args.round_filter = Null
    /\ \E i, j \in DOMAIN all_matches :
           /\ LocalDate(all_matches[i].date) = today - 14 /\ Listed(i)
           /\ LocalDate(all_matches[j].date) = today - 15 /\ ~Listed(j)
           /\ "home_score" \notin DOMAIN all_matches[j]

(***************************************************************************)
(* The handlers of records: the claims.                                    *)
(***************************************************************************)
\* C15: no handler raises on a malformed record: whatever null team name or
\* null score the records of the snapshot hold, a call of tool_form,
\* tool_matches or tool_todays_results returns a value.
C15_NoHandlerRaises ==
    hpc = "done" => ret.type # "raise"

\* C18: a handler leaves the snapshot as it found it: no call adds or changes
\* a field of a fixture or of a result.
C18_SnapshotUnchanged ==
    [][fixtures' = fixtures /\ results' = results]_vars

\* the rows of the table made from the match with hash id mid
RowsOf(mid) ==
    {i \in DOMAIN ret.data : ret.data[i].match_hash_id = mid}

\* how often the match with hash id mid is in a list of records
TimesIn(s, mid) ==
    Cardinality({i \in DOMAIN s : Get(s[i], "match_hash_id", 0) = mid})

\* C20: tool_todays_results shows a match once: a match that is in fixtures
\* and in results, once in each, makes at most one row of the table.
C20_EachMatchOnce ==
    (hpc = "done" /\ hcall.handler = "tool_todays_results" /\ ret.type = "table")
        => \A mid \in {1, 2} :
               (TimesIn(fixtures, mid) = 1 /\ TimesIn(results, mid) = 1)
                   => Cardinality(RowsOf(mid)) <= 1

(***************************************************************************)
(* The competition of a query: the claims.                                 *)
(***************************************************************************)
\* the competitions of the snapshot, sorted
KnownList ==
    [k \in DOMAIN AvailableCompetitions(competition_overview) |->
        AvailableCompetitions(competition_overview)[k].comp]

\* the text holds none of the competition codes its handler knows
Unrecognized(c) ==
    IF c.handler = "tool_competition_overview" THEN competition_key(c.text) = NoName
    ELSE extract_league_from_league_name(Lower(c.text)) = "Other"

\* the competitions a return value lists
ListedCompetitions(rt) ==
    IF rt.type = "competitions" THEN [k \in DOMAIN rt.data |-> rt.data[k].comp]
    ELSE rt.data

\* C16: a query whose competition code is not recognized is answered with the
\* list of the known competitions, by tool_competition_overview and by
\* tool_ladder alike.
C16_UnknownCompetitionListsKnown ==
    (cpc = "done" /\ Unrecognized(ccall))
        => cret.type = "competitions" /\ ListedCompetitions(cret) = KnownList

(***************************************************************************)
(* The data refresh: the claims.                                           *)
(***************************************************************************)
\* C17: a refresh is atomic for queries: all the collections and indices a
\* query has read come from one snapshot, the one before the refresh or the
\* one after it, never some from each, and each of them whole.
C17_RefreshAtomic ==
    \A a \in DOMAIN seen :
        /\ seen[a].whole
        /\ \E v \in 0..MaxRefreshes :
               \A b \in DOMAIN seen : seen[b].from = {v}

(***************************************************************************)
(* fuzzy_team: the claims.                                                 *)
(***************************************************************************)
\* the known team names that hold the text, lower-cased
HoldingText ==
    {Lower(team_names[i]) : i \in DOMAIN team_names} \cap
    {n \in {Lower(team_names[i]) : i \in DOMAIN team_names} : Contains(Lower(text), n)}

\* the known team names the text holds
HeldByText ==
    {n \in {Lower(team_names[i]) : i \in DOMAIN team_names} : Contains(n, Lower(text))}

\* C21: fuzzy_team works in strict order.  A text held by one known team name
\* gives that name; held by several, the shortest of them; else a text that
\* holds known team names gives the longest of them; the fuzzy scorer is asked
\* only when neither is so, and its choice is returned only at a score of 75
\* or more.
C21_FuzzyTeamOrder ==
    rpc = "done" =>
        /\ HoldingText # {} =>
               /\ resolved \in HoldingText
               /\ \A n \in HoldingText : StrLen(resolved) <= StrLen(n)
        /\ (HoldingText = {} /\ HeldByText # {}) =>
               /\ resolved \in HeldByText
               /\ \A n \in HeldByText : StrLen(resolved) >= StrLen(n)
        /\ fuzzy_used <=> (HoldingText = {} /\ HeldByText = {})
        /\ ~fuzzy_used => fuzzy_score = Null
        /\ (fuzzy_used /\ fuzzy_score # Null) =>
               IF fuzzy_score >= 75
               THEN resolved \in {Lower(team_names[i]) : i \in DOMAIN team_names}
               ELSE resolved = NoName
        /\ (fuzzy_used /\ fuzzy_score = Null) => (team_names = << >> /\ resolved = NoName)

\* a text held by names of different lengths was resolved
C21_WitnessShortest ==
    /\ rpc = "done" /\ text = "heid"
    /\ Cardinality({StrLen(n) : n \in HoldingText}) >= 2

(***************************************************************************)
(* The router: a bare competition code.                                    *)
(***************************************************************************)
\* C22: a query that is a known competition code and nothing else (ypl1,
\* ypl2, ysl nw, ysl se, vpl) is routed to tool_competition_overview.
C22_BareCodeToOverview ==
    (spc = "done" /\ Lower(asked) \in competition_codes)
        => routed.handler = "tool_competition_overview"

(***************************************************************************)
(* Leader boards: the claims.                                              *)
(***************************************************************************)
\* the list the board called last draws its people from
BoardSource ==
    IF bcall.fn # "tool_top_scorers" /\ bcall.include_non_players
    THEN staff_summary ELSE players_summary

\* the statistic the board called last ranks by
BoardStat(p) ==
    CASE bcall.fn = "tool_top_scorers" -> p.goals
      [] bcall.fn = "tool_yellow_cards" -> p.yellow_cards
      [] OTHER -> p.red_cards

\* the number of rows the table of the board called last may have: limit for
\* the scorers, the cap of the table of yellow cards for the cards
BoardCap == IF bcall.fn = "tool_top_scorers" THEN bcall.limit ELSE YellowTableCap

\* C23: a table a leader board returns holds only people of its source
\* (staff_summary when include_non_players is set, players_summary otherwise)
\* with a positive count of the statistic, for the scorers only people whose
\* role is player or unset and who pass the filter of the query; its rows
\* are in non-increasing order of the statistic, ranked 1..n, and no more
\* than the cap (limit for the scorers).
C23_BoardsFilteredSortedCapped ==
    board.type = "table" =>
        /\ \A i \in DOMAIN listed :
              /\ \E k \in DOMAIN BoardSource : BoardSource[k] = listed[i]
              /\ BoardStat(listed[i]) > 0
              /\ bcall.fn = "tool_top_scorers" =>
                    /\ listed[i].role \in {"", "player"}
                    /\ bcall.query # "" =>
                          /\ RoleKept(listed[i], FALSE)
                          /\ TeamKept(listed[i], extracted)
        /\ \A i, j \in DOMAIN listed :
              i < j => BoardStat(listed[i]) >= BoardStat(listed[j])
        /\ Len(board.data) <= Len(listed)
        /\ \A i \in DOMAIN board.data : board.data[i].Rank = i
        /\ Len(board.data) <= BoardCap

\* the filter suffix the claim gives a title: the exact team, else the club,
\* else the age group, else nothing
ClaimedDesc(e, include_non_players) ==
    LET level == IF e.team_name # NoName THEN e.team_name
                 ELSE IF e.base_club # NoName THEN e.base_club
                 ELSE IF e.age_group # NoAge THEN e.age_group
                 ELSE ""
    IN  IF include_non_players
        THEN " - Non-Players" \o (IF level = "" THEN "" ELSE " " \o level)
        ELSE IF level = "" THEN "" ELSE " - " \o level

\* the title of the board called last, with the filter suffix desc
BoardTitle(desc) ==
    CASE bcall.fn = "tool_top_scorers" ->
            TopScorersTitle(desc, Len(listed), bcall.limit)
      [] bcall.fn = "tool_yellow_cards" ->
            YellowCardsTitle(desc, Len(listed), bcall.show_details)
      [] OTHER -> RedCardsTitle(desc, Len(listed))

\* C24: the title of a leader board shows the exact team when one was
\* extracted, else the club when one was extracted (with or without an age
\* group), else the age group, and no filter suffix when nothing was.
C24_TitleNamesFilterLevel ==
    board.type \in {"table", "details"} =>
        board.title = BoardTitle(ClaimedDesc(extracted, bcall.include_non_players))

(***************************************************************************)
(* tool_form: the claims.                                                  *)
(***************************************************************************)
\* a record of results that is a completed match of the team: one of its
\* names holds the team and both scores are there
CompletedOf(team, a) == FormSelects(team, a) /\ FormScored(a)

\* W, L or D from the side of the team
FormLetter(team, a) ==
    LET at_home == Contains(Lower(team), Lower(a.home_team_name))
        mine == IF at_home THEN a.home_score ELSE a.away_score
        theirs == IF at_home THEN a.away_score ELSE a.home_score
    IN  IF mine > theirs THEN "W" ELSE IF mine < theirs THEN "L" ELSE "D"

\* the completed matches of the team that at most four others are later than
RecentCompleted(team) ==
    {i \in DOMAIN results :
        /\ CompletedOf(team, results[i])
        /\ Cardinality({j \in DOMAIN results :
               /\ CompletedOf(team, results[j])
               /\ results[j].date > results[i].date}) < 5}

\* C25: the table of tool_form has one row for each of the five latest
\* completed matches of the team (all of them when there are fewer), latest
\* first, each with W, L or D from the side of the team, and the title ends
\* with these letters in the order of the rows.
C25_FormLastFiveCompleted ==
    (hpc = "done" /\ hcall.handler = "tool_form" /\ ret.type = "table") =>
        \E team \in FormTeams(hcall.text, team_names) :
            /\ Len(ret.data) = Cardinality(RecentCompleted(team))
            /\ \A k \in DOMAIN ret.data :
                  \E i \in RecentCompleted(team) :
                     /\ ret.data[k].Date = results[i].date
                     /\ ret.data[k].Result = FormLetter(team, results[i])
                     /\ Cardinality({j \in RecentCompleted(team) :
                            results[j].date > results[i].date}) = k - 1
            /\ ret.title = FormTitle(team, ret.data)

(***************************************************************************)
(* _normalize_person: the claims.                                          *)
(***************************************************************************)
\* the matches of a person, empty when the person has none
MatchesOf(p) == Get(p, "matches", << >>)
IdOf(mt) == Get(mt, "match_hash_id", NoName)

\* what tells two entries of one match apart
Entry(mt) == <<IdOf(mt), Get(mt, "opponent", NoName)>>

\* C26 as stated: after _normalize_person no two entries of the person's
\* matches have the same match_hash_id.
C26_NoTwoWithSameId ==
    npc # "idle" =>
        \A i, j \in DOMAIN MatchesOf(person) :
            i # j => IdOf(MatchesOf(person)[i]) # IdOf(MatchesOf(person)[j])

\* the places of the first entry of each match, and of the entries that
\* carry no match_hash_id
FirstPlaces(ms) ==
    {i \in DOMAIN ms :
        \/ PyFalse(IdOf(ms[i]))
        \/ \A j \in DOMAIN ms : IdOf(ms[j]) = IdOf(ms[i]) => i <= j}

\* C26 amended: after _normalize_person no two entries that carry a
\* match_hash_id have the same one; the list is the list before with the
\* later entries of each match taken out: the first of each match and the
\* entries without a match_hash_id stay, in their order.
C26_DedupedById ==
    npc # "idle" =>
        /\ \A i, j \in DOMAIN MatchesOf(person) :
              (i # j /\ ~PyFalse(IdOf(MatchesOf(person)[i])))
                  => IdOf(MatchesOf(person)[i]) # IdOf(MatchesOf(person)[j])
        /\ [k \in DOMAIN MatchesOf(person) |-> Entry(MatchesOf(person)[k])]
              = LET before == MatchesOf(raw_person)
                    kept == SubList(before, FirstPlaces(before))
                IN  [k \in DOMAIN kept |-> Entry(kept[k])]

\* a person with two entries of one match, the later one dropped, and an
\* entry after them kept
C26_WitnessDropped ==
    /\ npc # "idle"
    /\ Len(MatchesOf(raw_person)) = 3 /\ Len(MatchesOf(person)) = 2
    /\ IdOf(MatchesOf(raw_person)[1]) = "m1" /\ IdOf(MatchesOf(raw_person)[2]) = "m1"
    /\ Entry(MatchesOf(raw_person)[1]) # Entry(MatchesOf(raw_person)[2])
    /\ IdOf(MatchesOf(person)[2]) = "m2"
\* match i of the snapshot is due when it would be reported with all leagues
\* asked for: it is in the date window, is no bye and needs a score
Due(i) ==
    LET every == [args EXCEPT !.include_all_leagues = TRUE]
        attrs == all_matches[i]
    IN  /\ PassesFilters(every, target_day, today, attrs)
        /\ NeedsScore(attrs, parse_date_utc_to_aest(attrs["date"]).date, today)

\* the league of a match is one of YPL1, YPL2, YSL NW, YSL SE or a VPL league
InTargetLeague(league_name) ==
    \/ extract_league_from_league_name(league_name)
           \in {"YPL1", "YPL2", "YSL NW", "YSL SE"}
    \/ Contains("vpl", Lower(league_name))

\* C27: without include_all_leagues, a due match is reported when its league
\* is YPL1, YPL2, YSL NW, YSL SE or a VPL league, and no match of any other
\* league is reported
C27_TargetLeaguesCovered ==
    (Returned /\ ~args.include_all_leagues) =>
        \A i \in DOMAIN fixtures :
            /\ (Due(i) /\ InTargetLeague(fixtures[i].league_name)) => Listed(i)
            /\ Listed(i) => InTargetLeague(fixtures[i].league_name)

\* the rest of C27: the four youth leagues are reported and no other league is
C27_YouthLeaguesCovered ==
    (Returned /\ ~args.include_all_leagues) =>
        \A i \in DOMAIN fixtures :
            /\ (Due(i) /\ ~Contains("vpl", Lower(fixtures[i].league_name))
                    /\ InTargetLeague(fixtures[i].league_name)) => Listed(i)
            /\ Listed(i) => InTargetLeague(fixtures[i].league_name)

\* a due VPL match next to a due YPL2 match, asked without all leagues
C27_ReachedVpl ==
    /\ mpc = "done" /\ ~args.include_all_leagues
    /\ \E i, j \in DOMAIN fixtures :
           /\ Due(i) /\ fixtures[i].league_name = "U18 Boys VPL Men"
           /\ Due(j) /\ fixtures[j].league_name = "U16 Boys YPL2" /\ Listed(j)

\* the ids of the fixtures of the snapshot
FixtureIds == { Get(fixtures[i], "match_hash_id", 0) : i \in DOMAIN fixtures }

\* the ids of the results that belong to no fixture
OrphanIds ==
    { Get(results[j], "match_hash_id", 0) : j \in DOMAIN results } \ FixtureIds

\* C28: the rows of tool_missing_scores come from fixtures only: every row
\* carries the id of a fixture, and a match that is in results but in no
\* fixture has no row, whatever its status and scores
C28_RowsFromFixturesOnly ==
    Returned =>
        /\ \A j \in DOMAIN missing_scores :
               /\ missing_scores[j].match_hash_id \in FixtureIds
               /\ missing_scores[j].match_hash_id \notin OrphanIds
        /\ Len(missing_scores) <= Len(fixtures)

\* a result of a match in no fixture that would be reported had it been a
\* fixture, next to a fixture that is reported
C28_OrphanLeftOut ==
    /\ mpc = "done"
    /\ Len(missing_scores) >= 1
    /\ \E j \in DOMAIN results :
           /\ results[j].match_hash_id \in OrphanIds
           /\ PassesFilters(args, target_day, today, results[j])
           /\ NeedsScore(results[j],
                         parse_date_utc_to_aest(results[j].date).date, today)

\* a step of check_session_timeout
CheckStep == last_op' = "check"

\* the session has been idle for more than SESSION_TIMEOUT_MINUTES
IdleTooLong ==
    wall - session_state.last_activity > SESSION_TIMEOUT_MINUTES * 60

\* C29: check_session_timeout logs an authenticated session out and returns
\* False when more than 240 minutes have passed since last_activity;
\* otherwise it sets last_activity to now and returns True
C29_TimeoutAfter240Minutes ==
    [][ (CheckStep /\ session_state.authenticated) =>
            IF IdleTooLong
            THEN /\ ~session_state'.authenticated
                 /\ sret' = "False"
            ELSE /\ session_state'.authenticated
                 /\ session_state'.last_activity = wall
                 /\ sret' = "True" ]_vars

\* the same with the seconds of line 239 in place of 240 minutes
C29_TimeoutAfterCodedSeconds ==
    [][ (CheckStep /\ session_state.authenticated) =>
            IF wall - session_state.last_activity > TimeoutSeconds
            THEN /\ ~session_state'.authenticated
                 /\ sret' = "False"
            ELSE /\ session_state'.authenticated
                 /\ session_state'.last_activity = wall
                 /\ sret' = "True" ]_vars

\* a session that was checked 240 minutes and a second after its last
\* activity is still authenticated
C29_SurvivedCheck ==
    /\ last_op = "check" /\ session_state.authenticated
    /\ time_diff = 14401

\* C30: while the store holds 'admin' no call removes it, and
\* remove_user('admin') fails and leaves the store as it was
C30_AdminNeverRemoved ==
    [][ "admin" \in DOMAIN load_users =>
            /\ "admin" \in DOMAIN load_users'
            /\ (ucall' = [fn |-> "remove_user", username |-> "admin"]) =>
                   /\ uret'[1] = FALSE
                   /\ load_users' = load_users
                   /\ <<file_exists, users_file>>' = <<file_exists, users_file>>
      ]_vars

\* remove_user('admin') has failed on a store that holds no coach
C30_RefusedAdmin ==
    /\ ucall = [fn |-> "remove_user", username |-> "admin"]
    /\ uret = <<FALSE, "Cannot remove admin user">>
    /\ file_exists
    /\ "coach" \notin DOMAIN users_file
    /\ "admin" \in DOMAIN users_file

====
